---- MODULE Spec2Model ----
(***************************************************************************)
(* Model of the Noise_IKpsk2 handshake engine, the keypair rotation and    *)
(* the index table of internal/transport (noise-protocol.go).              *)
(*                                                                         *)
(* Cryptography is symbolic: a hash, a key or a ciphertext is the term     *)
(* that records how it was computed, so two values are equal exactly when  *)
(* they were derived from the same inputs by the same steps.               *)
(***************************************************************************)
EXTENDS Integers, Sequences, FiniteSets

(***************************************************************************)
(* Bounds of the model.                                                    *)
(***************************************************************************)
\* number of ephemeral private keys types.NewPrivateKey hands out in a run
MaxEph == 2
\* the same, in the runs of SpecRekey
MaxEphRekey == 3
\* number of times the wall clock advances
MaxTicks == 3
\* ephemeral private keys in the runs of SpecCrossing
MaxEphCrossing == 3
\* number of addresses in a call of AddPeer
MaxAddrs == 2
\* indices are drawn from 0..MaxIndex (the code draws from 0..2^32-1)
MaxIndex == 1
\* the bounds of the runs of SpecRotation: ephemeral private keys, indices
\* (0..MaxIndexRotation) and the number of times a session grows old
MaxEphRotation == 6
MaxIndexRotation == 2
MaxRekeys == 1
\* number of ephemeral private keys in the runs of SpecPromotion
MaxEphPromotion == 4
\* the capacity of the channel of a queue (QueueOutboundSize and the like)
\* and the number of elements each writer sends
QueueSize == 2
MaxSends == 2
\* the buffers handed to coalesceMessages: how many, their length and their
\* capacity; the messages handed to splitCoalescedMessages: how many slots,
\* their length and their GSO size
\* the number of datagrams offered to the replay filter and the number of
\* keypairs installed after the first
MaxOffers == 4
MaxResets == 1
\* the width of the send counter (64 bits in the program) and of the margin
\* between RejectAfterMessages and the largest counter (13 bits)
CounterBits == 5
MarginBits == 2
MaxBufs == 3
MaxLen == 2
MaxCap == 4
MaxMsgs == 3
MaxN == 3
MaxGSO == 2

(***************************************************************************)
(* Program constants.                                                      *)
(***************************************************************************)
MessageInitiationType == 1
MessageResponseType == 2
MessageCookieReplyType == 3
MessageTransportType == 4
\* milliseconds
HandshakeInitationRate == 50
RekeyAfterTime == 120000

handshakeZeroed == "handshakeZeroed"
handshakeInitiationCreated == "handshakeInitiationCreated"
handshakeInitiationConsumed == "handshakeInitiationConsumed"
handshakeResponseCreated == "handshakeResponseCreated"
handshakeResponseConsumed == "handshakeResponseConsumed"

HandshakeStates ==
  { handshakeZeroed, handshakeInitiationCreated, handshakeInitiationConsumed,
    handshakeResponseCreated, handshakeResponseConsumed }

(***************************************************************************)
(* The two transports of the model, each configured with the other as a    *)
(* peer, with a peer "S" that is configured but not running and with a     *)
(* peer "Z" whose public key is a low-order point (so that the precomputed *)
(* static-static secret is all-zero).  "E" is an identity no transport     *)
(* has configured.                                                         *)
(***************************************************************************)
Transports == {"A", "B"}
Other(t) == IF t = "A" THEN "B" ELSE "A"
PeersOf(t) == {Other(t), "S", "Z"}
Workers == {"w1", "w2"}
Indices == 0..MaxIndex

(***************************************************************************)
(* Symbolic byte strings.                                                  *)
(***************************************************************************)
\* an all-zero array (of any size)
Zero == <<"zero">>
\* nil / the empty byte string
Empty == <<"empty">>
\* a ciphertext or key an adversary made up
Garbage == <<"bad">>

isZero(x) == x = Zero
setZero == Zero

StaticPrivateKey(id) == <<"sk", id>>
EphemeralPrivateKey(k) == <<"sk", "eph", k>>
\* types.NoisePrivateKey.PublicKey; the all-zero public key is a low-order point
PublicKey(sk) == IF Len(sk) = 2 THEN <<"pk", sk[2]>> ELSE <<"pk", sk[2], sk[3]>>
StaticPublicKey(id) == IF id = "Z" THEN Zero ELSE PublicKey(StaticPrivateKey(id))

\* Curve25519: DH(a, pub(b)) = DH(b, pub(a)); a low-order point gives the
\* all-zero secret, which is reported as an error
sharedSecret(sk, pk) ==
  IF isZero(pk)
    THEN [ss |-> Zero, err |-> TRUE]
    ELSE [ss |-> <<"dh", {PublicKey(sk), pk}>>, err |-> FALSE]

\* output number i of HKDF-BLAKE2s(key, input); KDF1 is the first output of
\* KDF2 and of KDF3
KDF(i, key, input) == <<"kdf", i, key, input>>
KDF1(key, input) == KDF(1, key, input)

mixKey(c, data) == KDF1(c, data)
\* BLAKE2s(h || data).  A ciphertext that was sealed with h itself as its
\* additional data is written without repeating h.
mixHash(h, data) ==
  IF data[1] = "aead" /\ data[5] = h
    THEN <<"h", h, <<"aead", data[2], data[3], data[4], <<"aad">>>>>>
    ELSE <<"h", h, data>>

InitialChainKey == <<"construction">>
InitialHash == mixHash(InitialChainKey, <<"identifier">>)
ZeroNonce == 0

\* chacha20poly1305
Seal(key, nonce, plaintext, aad) == <<"aead", key, nonce, plaintext, aad>>
OpenOk(key, nonce, ct, aad) ==
  /\ ct[1] = "aead"
  /\ ct[2] = key
  /\ ct[3] = nonce
  /\ ct[5] = aad
Opened(ct) == ct[4]

\* tai64n
ZeroTimestamp == <<"ts", 0>>
Timestamp(ms) == <<"ts", ms>>
After(a, b) == a[2] > b[2]

\* time.Time: the zero time is long before every instant of the run, and
\* a duration saturates (at the largest number the checker represents,
\* standing for the largest int64)
ZeroTime == 0 - 1
MaxDuration == 2^30 + (2^30 - 1)
TimeAfter(a, b) == a > b
Sub(a, b) == IF b = ZeroTime THEN MaxDuration ELSE a - b

TickMs == HandshakeInitationRate \div 2
StartTime == TickMs

VARIABLES
  now,        \* the wall clock, in milliseconds
  nextEph,    \* how many ephemeral private keys have been generated
  hs,         \* hs[t][p]: the Handshake of peer p in transport t
  indexTable, \* indexTable[t][i]: the entry index i is bound to in transport t
  keypairs,   \* keypairs[t][p]: the previous, current and next slot of peer p
  heap,       \* heap[t]: the Keypair objects transport t has allocated
  netInit,    \* the initiation messages that have been sent
  netResp,    \* the response messages that have been sent
  wk,         \* wk[w]: the call a receive worker is in the middle of
  lastOp,     \* history: the call that returned last, and what it returned
  hsMsgs,     \* history: the messages hs[t][p] last created and last consumed
  kpMsgs,     \* history: the messages of the handshake a keypair was derived from
  queue,      \* a ref-counted queue, its writers and its consumer
  conn,       \* the call of the UDP batching that returned last
  replayFilter, \* the replay filter of a keypair and the counters it accepted
  sendNonce,  \* the send counter of a keypair and the encryption workers
  locks,      \* the static-identity, handshake and keypairs lock of a peer
              \* and the place of each goroutine that takes them
  pd          \* the peerDirectory and the AddPeer call that returned last

\* the variables of the handshake and of the keypairs
handshakeVars ==
  <<now, nextEph, hs, indexTable, keypairs, heap, netInit, netResp, wk, lastOp,
    hsMsgs, kpMsgs>>

\* the variables of the queues, of the UDP batching, of the replay filter
\* and of the send counter, which no call of the handshake touches
others == <<queue, conn, replayFilter, sendNonce, locks, pd>>

vars == <<handshakeVars, others>>

(***************************************************************************)
(* The index table: a map from an index to the handshake or the keypair    *)
(* it is bound to.                                                         *)
(***************************************************************************)
NoEntry == [kind |-> "none", peer |-> "", keypair |-> 0]
HandshakeEntry(p) == [kind |-> "handshake", peer |-> p, keypair |-> 0]
KeypairEntry(p, k) == [kind |-> "keypair", peer |-> p, keypair |-> k]

Lookup(tab, i) == IF i \in DOMAIN tab THEN tab[i] ELSE NoEntry
Delete(tab, i) == IF i \in DOMAIN tab THEN [tab EXCEPT ![i] = NoEntry] ELSE tab
\* the indices NewIndexForHandshake can return: it draws at random and
\* retries while the index drawn is bound
FreeIndices(tab) == {i \in DOMAIN tab : tab[i].kind = "none"}
NewIndexForHandshake(tab, i, p) == [tab EXCEPT ![i] = HandshakeEntry(p)]
SwapIndexForKeypair(tab, i, k) ==
  IF Lookup(tab, i).kind = "none"
    THEN tab
    ELSE [tab EXCEPT ![i] = KeypairEntry(tab[i].peer, k)]

(***************************************************************************)
(* Peers and their handshakes.                                             *)
(***************************************************************************)
\* peer.isRunning
IsRunning(p) == p # "S"
\* Transport.LookupPeer: the peer configured with this static public key
LookupPeer(t, pk) ==
  IF \E p \in PeersOf(t) : StaticPublicKey(p) = pk
    THEN CHOOSE p \in PeersOf(t) : StaticPublicKey(p) = pk
    ELSE "nil"

PresharedKey(a, b) == IF {a, b} = Transports THEN <<"psk", Transports>> ELSE Zero

NewHandshake(t, p) ==
  [ state |-> handshakeZeroed,
    hash |-> Zero,
    chainKey |-> Zero,
    presharedKey |-> PresharedKey(t, p),
    localEphemeral |-> Zero,
    localIndex |-> 0,
    remoteIndex |-> 0,
    remoteStatic |-> StaticPublicKey(p),
    remoteEphemeral |-> Zero,
    precomputedStaticStatic |-> sharedSecret(StaticPrivateKey(t), StaticPublicKey(p)).ss,
    lastTimestamp |-> ZeroTimestamp,
    lastInitiationConsumption |-> ZeroTime ]


\* a Clear that also forgets the greatest timestamp seen
ClearResettingTimestamp(h) ==
  [h EXCEPT !.localEphemeral = setZero,
            !.remoteEphemeral = setZero,
            !.chainKey = setZero,
            !.hash = setZero,
            !.localIndex = 0,
            !.lastTimestamp = ZeroTimestamp,
            !.state = handshakeZeroed]

\* Handshake.Clear
Clear(h) ==
  [h EXCEPT !.localEphemeral = setZero,
            !.remoteEphemeral = setZero,
            !.chainKey = setZero,
            !.hash = setZero,
            !.localIndex = 0,
            !.state = handshakeZeroed]

NoSlots == [previous |-> 0, current |-> 0, next |-> 0]

NoMsg == [Type |-> 0]
\* history: a message that was sent is named by its ephemeral public key,
\* which no other message that was sent carries
Forged == <<"forged">>
InitiationId(m) == IF m \in netInit THEN m.Ephemeral ELSE Forged
ResponseId(m) == IF m \in netResp THEN m.Ephemeral ELSE Forged
NoMsgs == [sent |-> Zero, rcvd |-> Zero]

IdleWorker ==
  [ pc |-> "idle", t |-> "", p |-> "", msg |-> NoMsg,
    hash |-> Zero, chainKey |-> Zero, timestamp |-> ZeroTimestamp ]

\* history: the call that returned, and what it returned ("" while the call
\* is still running)
Returned(op, t, p, ret, why, aead, sender) == [op |-> op, ret |-> ret]

(***************************************************************************)
(* The ref-counted queues of channels.go (outboundQueue, inboundQueue,     *)
(* handshakeQueue): a buffered channel c and a sync.WaitGroup wg.          *)
(* newOutboundQueue (52-62) makes the channel, takes the initial reference *)
(* and starts the goroutine that waits for the count to reach 0 and closes *)
(* the channel.  initial: the initial reference is still held; closer: the *)
(* place of that goroutine; writer, sends: the place of each writer and    *)
(* the elements it sent; consumer: the place of the goroutine that ranges  *)
(* over c; closes, lateAdd, panicked: history.                             *)
(***************************************************************************)
QueueWriters == {"x1", "x2"}

NewQueue ==
  [ c |-> 0, closed |-> FALSE, wg |-> 1, initial |-> TRUE, closer |-> "start",
    writer |-> [x \in QueueWriters |-> "idle"], sends |-> [x \in QueueWriters |-> 0],
    consumer |-> "range", received |-> 0,
    closes |-> 0, lateAdd |-> FALSE, panicked |-> FALSE ]

\* conn: the arguments of a call of the UDP batching (call, bufs, msgs,
\* firstMsgAt) and, once it has returned (op), what it returned (n, err) and
\* the messages it left (out)
NoCall ==
  [ op |-> "none", call |-> "none", bufs |-> <<>>, msgs |-> <<>>, firstMsgAt |-> 0,
    n |-> 0, err |-> FALSE, out |-> <<>> ]
\* the replay filter of a keypair: head, the highest counter accepted, and
\* the bitmap, as the set of the positions whose bit is set; accepted and
\* last are history: the counters accepted since the Reset, in the order
\* they were accepted, and the call of Check that returned last
NewFilter ==
  [ head |-> 0, bits |-> {}, accepted |-> <<>>, offers |-> 0, resets |-> 0,
    last |-> [counter |-> 0, head |-> 0, ret |-> FALSE, op |-> "Reset"] ]
\* the send counter of a keypair, a CounterBits-bit integer, and the
\* encryption workers: the place of each and the counter it fetched;
\* allocated, sent, dropped, reused and exhausted are history: the counters
\* in the order they were fetched, those of the packets sent and of the
\* packets dropped, whether a counter was sent twice, and whether a worker
\* found the keypair unusable
EncryptionWorkers == {"e1", "e2"}
RejectAfterMessages == 2^CounterBits - 2^MarginBits - 1

CounterAt(n) ==
  [ counter |-> n, worker |-> [e \in EncryptionWorkers |-> [pc |-> "idle", nonce |-> 0]],
    allocated |-> <<>>, sent |-> {}, dropped |-> {}, reused |-> FALSE,
    exhausted |-> FALSE ]

NewCounter == CounterAt(0)

(***************************************************************************)
(* The locks of one peer of one transport: transport.staticIdentity and    *)
(* handshake.mutex are sync.RWMutex, keypairs is locked exclusively only.  *)
(* readers: the goroutines that hold the read lock; writer: the goroutine  *)
(* that holds the lock exclusively; waiting: the goroutines that called    *)
(* Lock and wait for it.  at[g]: the call goroutine g is in, the lock      *)
(* operations the call makes and how many of them it has made.             *)
(***************************************************************************)
Goroutines == {"g1", "g2", "g3"}
NoLock == [readers |-> {}, writer |-> "", waiting |-> {}]
IdleGoroutine == [op |-> "", prog |-> <<>>, pc |-> 0]
NoLocks ==
  [ staticIdentity |-> NoLock, handshake |-> NoLock, keypairs |-> NoLock,
    at |-> [g \in Goroutines |-> IdleGoroutine] ]

(***************************************************************************)
(* The peerDirectory of part_002: three maps, empty after                  *)
(* newPeerDirectory (25-31).  last, failed and again are history: the      *)
(* AddPeer call that returned last with the directory it was made on,      *)
(* whether a call has returned an error, and whether a call was made for   *)
(* a public key that was in peerAddresses already.                         *)
(***************************************************************************)
NoMap == [x \in {} |-> ""]
NoMaps == [peerNames |-> NoMap, peerAddresses |-> NoMap, fromPeerAddress |-> NoMap]
newPeerDirectory ==
  [ peerNames |-> NoMap, peerAddresses |-> NoMap, fromPeerAddress |-> NoMap,
    last |-> [ name |-> "", publicKey |-> "", addrs |-> <<>>, err |-> FALSE,
               before |-> NoMaps ],
    failed |-> FALSE, again |-> FALSE ]

InitHandshake ==
  /\ now = StartTime
  /\ nextEph = 0
  /\ hs = [t \in Transports |-> [p \in PeersOf(t) |-> NewHandshake(t, p)]]
  /\ indexTable = [t \in Transports |-> [i \in Indices |-> NoEntry]]
  /\ keypairs = [t \in Transports |-> [p \in PeersOf(t) |-> NoSlots]]
  /\ heap = [t \in Transports |-> <<>>]
  /\ netInit = {}
  /\ netResp = {}
  /\ wk = [w \in Workers |-> IdleWorker]
  /\ lastOp = Returned("none", "", "", "", "", 0, 0)
  /\ hsMsgs = [t \in Transports |-> [p \in PeersOf(t) |-> NoMsgs]]
  /\ kpMsgs = [t \in Transports |-> <<>>]

InitOthers ==
  /\ queue = NewQueue
  /\ conn = NoCall
  /\ replayFilter = NewFilter
  /\ sendNonce = NewCounter
  /\ locks = NoLocks
  /\ pd = newPeerDirectory

Init == InitHandshake /\ InitOthers

(***************************************************************************)
(* The transcript of an initiation from a sender with static public key    *)
(* spub and ephemeral private key e to the static public key rpub, with    *)
(* static-static secret pss and timestamp ts: lines 215-270.               *)
(***************************************************************************)
InitiationTranscript(spub, e, rpub, pss, ts) ==
  LET h1 == mixHash(InitialHash, rpub)
      E == PublicKey(e)
      c1 == mixKey(InitialChainKey, E)
      h2 == mixHash(h1, E)
      dh == sharedSecret(e, rpub)
      c2 == KDF(1, c1, dh.ss)
      k2 == KDF(2, c1, dh.ss)
      static == Seal(k2, ZeroNonce, spub, h2)
      h3 == mixHash(h2, static)
      c3 == KDF(1, c2, pss)
      k3 == KDF(2, c2, pss)
      tsct == Seal(k3, ZeroNonce, ts, h3)
      h4 == mixHash(h3, tsct)
  IN [ dherr |-> dh.err, E |-> E, h2 |-> h2, c1 |-> c1, h3 |-> h3, c2 |-> c2,
       h4 |-> h4, c3 |-> c3, static |-> static, tsct |-> tsct ]

InitiationMessage(sender, tr) ==
  [ Type |-> MessageInitiationType, Sender |-> sender, Ephemeral |-> tr.E,
    Static |-> tr.static, Timestamp |-> tr.tsct ]

(***************************************************************************)
(* Transport.CreateMessageInitiation(peer), under handshake.mutex.Lock.    *)
(***************************************************************************)

\* a call that revokes the index of the handshake and marks the initiation
\* as created before it finds the static-static secret to be all-zero
CreateMessageInitiationFailsLate(t, p) ==
  LET h == hs[t][p]
      e == EphemeralPrivateKey(nextEph + 1)
      tr == InitiationTranscript(StaticPublicKey(t), e, h.remoteStatic,
                                 h.precomputedStaticStatic, Timestamp(now))
  IN /\ tr.dherr \/ isZero(h.precomputedStaticStatic)
     /\ nextEph' = nextEph + 1
     /\ indexTable' = [indexTable EXCEPT ![t] = Delete(@, h.localIndex)]
     /\ hs' = [hs EXCEPT ![t][p] =
                 [h EXCEPT !.hash = tr.h3, !.chainKey = tr.c2, !.localEphemeral = e,
                           !.state = handshakeInitiationCreated]]
     /\ lastOp' = Returned("CreateMessageInitiation", t, p, "err", "errInvalidPublicKey", 0, 0)
     /\ UNCHANGED <<now, keypairs, heap, netInit, netResp, wk, hsMsgs, kpMsgs>>

CreateMessageInitiationFails(t, p) ==
  LET h == hs[t][p]
      e == EphemeralPrivateKey(nextEph + 1)
      tr == InitiationTranscript(StaticPublicKey(t), e, h.remoteStatic,
                                 h.precomputedStaticStatic, Timestamp(now))
  IN /\ tr.dherr \/ isZero(h.precomputedStaticStatic)
     /\ nextEph' = nextEph + 1
     /\ hs' = [hs EXCEPT ![t][p] =
                 IF tr.dherr
                   THEN [h EXCEPT !.hash = tr.h2, !.chainKey = tr.c1, !.localEphemeral = e]
                   ELSE [h EXCEPT !.hash = tr.h3, !.chainKey = tr.c2, !.localEphemeral = e]]
     /\ lastOp' = Returned("CreateMessageInitiation", t, p, "err", "errInvalidPublicKey", 0, 0)
     /\ UNCHANGED <<now, indexTable, keypairs, heap, netInit, netResp, wk, hsMsgs, kpMsgs>>


\* a call that does not store the index it allocated in the handshake
CreateMessageInitiationForgettingIndex(t, p) ==
  LET h == hs[t][p]
      e == EphemeralPrivateKey(nextEph + 1)
      tr == InitiationTranscript(StaticPublicKey(t), e, h.remoteStatic,
                                 h.precomputedStaticStatic, Timestamp(now))
      tab == Delete(indexTable[t], h.localIndex)
  IN /\ ~tr.dherr
     /\ ~isZero(h.precomputedStaticStatic)
     /\ \E i \in FreeIndices(tab) :
          /\ indexTable' = [indexTable EXCEPT ![t] = NewIndexForHandshake(tab, i, p)]
          /\ hs' = [hs EXCEPT ![t][p] =
                      [h EXCEPT !.hash = tr.h4, !.chainKey = tr.c3, !.localEphemeral = e,
                                !.state = handshakeInitiationCreated]]
          /\ netInit' = netInit \cup {InitiationMessage(i, tr)}
          /\ hsMsgs' = [hsMsgs EXCEPT ![t][p].sent = tr.E]
          /\ lastOp' = Returned("CreateMessageInitiation", t, p, "ok", "", 0, i)
     /\ nextEph' = nextEph + 1
     /\ UNCHANGED <<now, keypairs, heap, netResp, wk, kpMsgs>>


\* a call that binds the fresh index without deleting the binding of the prior one
CreateMessageInitiationKeepingIndex(t, p) ==
  LET h == hs[t][p]
      e == EphemeralPrivateKey(nextEph + 1)
      tr == InitiationTranscript(StaticPublicKey(t), e, h.remoteStatic,
                                 h.precomputedStaticStatic, Timestamp(now))
      tab == indexTable[t]
  IN /\ ~tr.dherr
     /\ ~isZero(h.precomputedStaticStatic)
     /\ \E i \in FreeIndices(tab) :
          /\ indexTable' = [indexTable EXCEPT ![t] = NewIndexForHandshake(tab, i, p)]
          /\ hs' = [hs EXCEPT ![t][p] =
                      [h EXCEPT !.hash = tr.h4, !.chainKey = tr.c3, !.localEphemeral = e,
                                !.localIndex = i, !.state = handshakeInitiationCreated]]
          /\ netInit' = netInit \cup {InitiationMessage(i, tr)}
          /\ hsMsgs' = [hsMsgs EXCEPT ![t][p].sent = tr.E]
          /\ lastOp' = Returned("CreateMessageInitiation", t, p, "ok", "", 0, i)
     /\ nextEph' = nextEph + 1
     /\ UNCHANGED <<now, keypairs, heap, netResp, wk, kpMsgs>>

CreateMessageInitiation(t, p) ==
  LET h == hs[t][p]
      e == EphemeralPrivateKey(nextEph + 1)
      tr == InitiationTranscript(StaticPublicKey(t), e, h.remoteStatic,
                                 h.precomputedStaticStatic, Timestamp(now))
      tab == Delete(indexTable[t], h.localIndex)
  IN /\ ~tr.dherr
     /\ ~isZero(h.precomputedStaticStatic)
     /\ \E i \in FreeIndices(tab) :
          /\ indexTable' = [indexTable EXCEPT ![t] = NewIndexForHandshake(tab, i, p)]
          /\ hs' = [hs EXCEPT ![t][p] =
                      [h EXCEPT !.hash = tr.h4, !.chainKey = tr.c3, !.localEphemeral = e,
                                !.localIndex = i, !.state = handshakeInitiationCreated]]
          /\ netInit' = netInit \cup {InitiationMessage(i, tr)}
          /\ hsMsgs' = [hsMsgs EXCEPT ![t][p].sent = tr.E]
          /\ lastOp' = Returned("CreateMessageInitiation", t, p, "ok", "", 0, i)
     /\ nextEph' = nextEph + 1
     /\ UNCHANGED <<now, keypairs, heap, netResp, wk, kpMsgs>>

(***************************************************************************)
(* Transport.ConsumeMessageInitiation(msg).                                *)
(*                                                                         *)
(* ConsumeInitiationCheck is lines 281-352: everything up to the release   *)
(* of the read lock and the two returns that follow it.  It reads the      *)
(* handshake (precomputedStaticStatic, lastTimestamp,                      *)
(* lastInitiationConsumption) under handshake.mutex.RLock only.  aead      *)
(* counts the AEAD opens performed before the call returns.                *)
(***************************************************************************)
Rejected(why, aead) ==
  [ peer |-> "nil", why |-> why, aead |-> aead,
    hash |-> Zero, chainKey |-> Zero, timestamp |-> ZeroTimestamp ]

Flood(h) == Sub(now, h.lastInitiationConsumption) <= HandshakeInitationRate


\* a check that decides flood and replay before it opens the timestamp
ConsumeInitiationCheckFloodFirst(t, msg) ==
  LET h1 == mixHash(InitialHash, StaticPublicKey(t))
      h2 == mixHash(h1, msg.Ephemeral)
      c1 == mixKey(InitialChainKey, msg.Ephemeral)
      dh == sharedSecret(StaticPrivateKey(t), msg.Ephemeral)
      c2 == KDF(1, c1, dh.ss)
      k2 == KDF(2, c1, dh.ss)
      peerPK == Opened(msg.Static)
      h3 == mixHash(h2, msg.Static)
      peer == LookupPeer(t, peerPK)
      h == hs[t][peer]
      c3 == KDF(1, c2, h.precomputedStaticStatic)
      k3 == KDF(2, c2, h.precomputedStaticStatic)
      timestamp == Opened(msg.Timestamp)
      h4 == mixHash(h3, msg.Timestamp)
      replay == ~After(timestamp, h.lastTimestamp)
      flood == Flood(h)
  IN IF msg.Type # MessageInitiationType THEN Rejected("type", 0)
     ELSE IF dh.err THEN Rejected("shared secret", 0)
     ELSE IF ~OpenOk(k2, ZeroNonce, msg.Static, h2) THEN Rejected("static", 1)
     ELSE IF peer = "nil" THEN Rejected("unknown peer", 1)
     ELSE IF ~IsRunning(peer) THEN Rejected("not running", 1)
     ELSE IF isZero(h.precomputedStaticStatic) THEN Rejected("zero static-static", 1)
     ELSE IF flood THEN Rejected("flood", 1)
     ELSE IF ~OpenOk(k3, ZeroNonce, msg.Timestamp, h3) THEN Rejected("timestamp", 2)
     ELSE IF replay THEN Rejected("replay", 2)
     ELSE [ peer |-> peer, why |-> "", aead |-> 2,
            hash |-> h4, chainKey |-> c3, timestamp |-> timestamp ]

ConsumeInitiationCheck(t, msg) ==
  LET h1 == mixHash(InitialHash, StaticPublicKey(t))
      h2 == mixHash(h1, msg.Ephemeral)
      c1 == mixKey(InitialChainKey, msg.Ephemeral)
      dh == sharedSecret(StaticPrivateKey(t), msg.Ephemeral)
      c2 == KDF(1, c1, dh.ss)
      k2 == KDF(2, c1, dh.ss)
      peerPK == Opened(msg.Static)
      h3 == mixHash(h2, msg.Static)
      peer == LookupPeer(t, peerPK)
      h == hs[t][peer]
      c3 == KDF(1, c2, h.precomputedStaticStatic)
      k3 == KDF(2, c2, h.precomputedStaticStatic)
      timestamp == Opened(msg.Timestamp)
      h4 == mixHash(h3, msg.Timestamp)
      replay == ~After(timestamp, h.lastTimestamp)
      flood == Flood(h)
  IN IF msg.Type # MessageInitiationType THEN Rejected("type", 0)
     ELSE IF dh.err THEN Rejected("shared secret", 0)
     ELSE IF ~OpenOk(k2, ZeroNonce, msg.Static, h2) THEN Rejected("static", 1)
     ELSE IF peer = "nil" THEN Rejected("unknown peer", 1)
     ELSE IF ~IsRunning(peer) THEN Rejected("not running", 1)
     ELSE IF isZero(h.precomputedStaticStatic) THEN Rejected("zero static-static", 1)
     ELSE IF ~OpenOk(k3, ZeroNonce, msg.Timestamp, h3) THEN Rejected("timestamp", 2)
     ELSE IF replay THEN Rejected("replay", 2)
     ELSE IF flood THEN Rejected("flood", 2)
     ELSE [ peer |-> peer, why |-> "", aead |-> 2,
            hash |-> h4, chainKey |-> c3, timestamp |-> timestamp ]

\* the initiation messages an adversary can make of a message it has seen
TamperedInitiations(m) ==
  { [m EXCEPT !.Type = MessageResponseType],
    [m EXCEPT !.Sender = (m.Sender + 1) % (MaxIndex + 1)],
    [m EXCEPT !.Ephemeral = Zero],
    [m EXCEPT !.Static = Garbage],
    [m EXCEPT !.Timestamp = Garbage] }

\* the initiation an adversary makes for transport t in the name of
\* identity x, of which it holds the private key
CraftedInitiation(t, x) ==
  InitiationMessage(0,
    InitiationTranscript(StaticPublicKey(x), EphemeralPrivateKey(0), StaticPublicKey(t),
                         sharedSecret(StaticPrivateKey(t), StaticPublicKey(x)).ss,
                         Timestamp(now)))

\* the message the peer of transport t sent last
LastSentTo(t, net) == {m \in net : m.Ephemeral = hsMsgs[Other(t)][t].sent}

\* the datagrams of type initiation that can reach transport t: every
\* initiation that was sent, what an adversary makes of the last one sent
\* to t, and what it crafts itself
InitiationInputs(t) ==
  netInit
    \cup UNION {TamperedInitiations(m) : m \in LastSentTo(t, netInit)}
    \cup {CraftedInitiation(t, x) : x \in {"E", "S", "Z"}}


\* a call that counts a rejected initiation as a consumption
ConsumeMessageInitiationRejectsCounting(t, msg) ==
  LET r == ConsumeInitiationCheck(t, msg)
  IN /\ r.peer = "nil"
     /\ hs' = IF r.why \in {"replay", "flood"}
                THEN [hs EXCEPT ![t][Other(t)].lastInitiationConsumption = now]
                ELSE hs
     /\ lastOp' = Returned("ConsumeMessageInitiation", t, "nil", "nil", r.why, r.aead, msg.Sender)
     /\ UNCHANGED <<now, nextEph, indexTable, keypairs, heap, netInit, netResp, wk,
                    hsMsgs, kpMsgs>>

ConsumeMessageInitiationRejects(t, msg) ==
  LET r == ConsumeInitiationCheck(t, msg)
  IN /\ r.peer = "nil"
     /\ lastOp' = Returned("ConsumeMessageInitiation", t, "nil", "nil", r.why, r.aead, msg.Sender)
     /\ UNCHANGED <<now, nextEph, hs, indexTable, keypairs, heap, netInit, netResp, wk,
                    hsMsgs, kpMsgs>>

\* the call passes the checks and releases the read lock
ConsumeMessageInitiationChecks(w, t, msg) ==
  LET r == ConsumeInitiationCheck(t, msg)
  IN /\ wk[w].pc = "idle"
     /\ r.peer # "nil"
     /\ wk' = [wk EXCEPT ![w] =
                 [ pc |-> "ConsumeMessageInitiation", t |-> t, p |-> r.peer, msg |-> msg,
                   hash |-> r.hash, chainKey |-> r.chainKey, timestamp |-> r.timestamp ]]
     /\ lastOp' = Returned("ConsumeMessageInitiation", t, r.peer, "", "", 2, msg.Sender)
     /\ UNCHANGED <<now, nextEph, hs, indexTable, keypairs, heap, netInit, netResp,
                    hsMsgs, kpMsgs>>

\* a commit that keeps an initiation of its own that is outstanding: it
\* leaves the state InitiationCreated as it was
ConsumeInitiationCommitKeepingAttempt(h, l) ==
  [h EXCEPT !.hash = l.hash,
            !.chainKey = l.chainKey,
            !.remoteIndex = l.msg.Sender,
            !.remoteEphemeral = l.msg.Ephemeral,
            !.lastTimestamp = IF After(l.timestamp, h.lastTimestamp)
                                THEN l.timestamp ELSE h.lastTimestamp,
            !.lastInitiationConsumption = IF TimeAfter(now, h.lastInitiationConsumption)
                                            THEN now ELSE h.lastInitiationConsumption,
            !.state = IF h.state = handshakeInitiationCreated
                        THEN handshakeInitiationCreated
                        ELSE handshakeInitiationConsumed]

\* lines 354-376, under handshake.mutex.Lock
ConsumeInitiationCommit(h, l) ==
  [h EXCEPT !.hash = l.hash,
            !.chainKey = l.chainKey,
            !.remoteIndex = l.msg.Sender,
            !.remoteEphemeral = l.msg.Ephemeral,
            !.lastTimestamp = IF After(l.timestamp, h.lastTimestamp)
                                THEN l.timestamp ELSE h.lastTimestamp,
            !.lastInitiationConsumption = IF TimeAfter(now, h.lastInitiationConsumption)
                                            THEN now ELSE h.lastInitiationConsumption,
            !.state = handshakeInitiationConsumed]

ConsumeMessageInitiationCommits(w) ==
  LET l == wk[w]
  IN /\ l.pc = "ConsumeMessageInitiation"
     /\ hs' = [hs EXCEPT ![l.t][l.p] = ConsumeInitiationCommit(hs[l.t][l.p], l)]
     /\ hsMsgs' = [hsMsgs EXCEPT ![l.t][l.p].rcvd = InitiationId(l.msg)]
     /\ wk' = [wk EXCEPT ![w] = IdleWorker]
     /\ lastOp' = Returned("ConsumeMessageInitiation", l.t, l.p, "peer", "", 2, l.msg.Sender)
     /\ UNCHANGED <<now, nextEph, indexTable, keypairs, heap, netInit, netResp, kpMsgs>>

(***************************************************************************)
(* Transport.CreateMessageResponse(peer), under handshake.mutex.Lock.      *)
(***************************************************************************)
CreateMessageResponseFails(t, p) ==
  /\ hs[t][p].state # handshakeInitiationConsumed
  /\ lastOp' = Returned("CreateMessageResponse", t, p, "err",
                        "handshake initiation must be consumed first", 0, 0)
  /\ UNCHANGED <<now, nextEph, hs, indexTable, keypairs, heap, netInit, netResp, wk,
                 hsMsgs, kpMsgs>>

\* lines 397-442: the response of the handshake h with local index i and
\* ephemeral private key e, and the handshake it leaves
ResponseTranscript(h, i, e) ==
  LET E == PublicKey(e)
      h1 == mixHash(h.hash, E)
      c1 == mixKey(h.chainKey, E)
      dh1 == sharedSecret(e, h.remoteEphemeral)
      c2 == mixKey(c1, dh1.ss)
      dh2 == sharedSecret(e, h.remoteStatic)
      c3 == mixKey(c2, dh2.ss)
      c4 == KDF(1, c3, h.presharedKey)
      tau == KDF(2, c3, h.presharedKey)
      key == KDF(3, c3, h.presharedKey)
      h2 == mixHash(h1, tau)
      empty == Seal(key, ZeroNonce, Empty, h2)
      h3 == mixHash(h2, empty)
      g == [h EXCEPT !.localIndex = i, !.localEphemeral = e]
  IN IF dh1.err THEN [err |-> TRUE, msg |-> NoMsg,
                      hs |-> [g EXCEPT !.hash = h1, !.chainKey = c1]]
     ELSE IF dh2.err THEN [err |-> TRUE, msg |-> NoMsg,
                           hs |-> [g EXCEPT !.hash = h1, !.chainKey = c2]]
     ELSE [ err |-> FALSE,
            msg |-> [ Type |-> MessageResponseType, Sender |-> i,
                      Receiver |-> h.remoteIndex, Ephemeral |-> E, Empty |-> empty ],
            hs |-> [g EXCEPT !.hash = h3, !.chainKey = c4,
                             !.state = handshakeResponseCreated] ]


\* a call that binds the fresh index without deleting the binding of the old one
CreateMessageResponseKeepingIndex(t, p) ==
  LET h == hs[t][p]
      tab == indexTable[t]
  IN /\ h.state = handshakeInitiationConsumed
     /\ \E i \in FreeIndices(tab) :
          LET r == ResponseTranscript(h, i, EphemeralPrivateKey(nextEph + 1))
          IN /\ indexTable' = [indexTable EXCEPT ![t] = NewIndexForHandshake(tab, i, p)]
             /\ hs' = [hs EXCEPT ![t][p] = r.hs]
             /\ netResp' = IF r.err THEN netResp ELSE netResp \cup {r.msg}
             /\ hsMsgs' = IF r.err THEN hsMsgs
                                   ELSE [hsMsgs EXCEPT ![t][p].sent = r.msg.Ephemeral]
             /\ lastOp' = Returned("CreateMessageResponse", t, p,
                                   IF r.err THEN "err" ELSE "ok",
                                   IF r.err THEN "errInvalidPublicKey" ELSE "", 0, i)
     /\ nextEph' = nextEph + 1
     /\ UNCHANGED <<now, keypairs, heap, netInit, wk, kpMsgs>>

CreateMessageResponse(t, p) ==
  LET h == hs[t][p]
      tab == Delete(indexTable[t], h.localIndex)
  IN /\ h.state = handshakeInitiationConsumed
     /\ \E i \in FreeIndices(tab) :
          LET r == ResponseTranscript(h, i, EphemeralPrivateKey(nextEph + 1))
          IN /\ indexTable' = [indexTable EXCEPT ![t] = NewIndexForHandshake(tab, i, p)]
             /\ hs' = [hs EXCEPT ![t][p] = r.hs]
             /\ netResp' = IF r.err THEN netResp ELSE netResp \cup {r.msg}
             /\ hsMsgs' = IF r.err THEN hsMsgs
                                   ELSE [hsMsgs EXCEPT ![t][p].sent = r.msg.Ephemeral]
             /\ lastOp' = Returned("CreateMessageResponse", t, p,
                                   IF r.err THEN "err" ELSE "ok",
                                   IF r.err THEN "errInvalidPublicKey" ELSE "", 0, i)
     /\ nextEph' = nextEph + 1
     /\ UNCHANGED <<now, keypairs, heap, netInit, wk, kpMsgs>>

(***************************************************************************)
(* Transport.ConsumeMessageResponse(msg).                                  *)
(***************************************************************************)
\* the response messages an adversary can make of a message it has seen
TamperedResponses(m) ==
  { [m EXCEPT !.Type = MessageInitiationType],
    [m EXCEPT !.Ephemeral = Zero],
    [m EXCEPT !.Empty = Garbage],
    [m EXCEPT !.Sender = (m.Sender + 1) % (MaxIndex + 1)],
    [m EXCEPT !.Receiver = (m.Receiver + 1) % (MaxIndex + 1)] }

\* the datagrams of type response that can reach transport t
ResponseInputs(t) ==
  netResp \cup UNION {TamperedResponses(m) : m \in LastSentTo(t, netResp)}

\* lines 448-460: the type check and the lookup of the handshake by receiver
ConsumeMessageResponseRejects(t, msg) ==
  /\ \/ msg.Type # MessageResponseType
     \/ Lookup(indexTable[t], msg.Receiver).kind # "handshake"
  /\ lastOp' = Returned("ConsumeMessageResponse", t, "nil", "nil",
                        IF msg.Type # MessageResponseType THEN "type" ELSE "no handshake",
                        0, msg.Sender)
  /\ UNCHANGED <<now, nextEph, hs, indexTable, keypairs, heap, netInit, netResp, wk,
                 hsMsgs, kpMsgs>>

ConsumeMessageResponseLooksUp(w, t, msg) ==
  LET lookup == Lookup(indexTable[t], msg.Receiver)
  IN /\ wk[w].pc = "idle"
     /\ msg.Type = MessageResponseType
     /\ lookup.kind = "handshake"
     /\ wk' = [wk EXCEPT ![w] =
                 [IdleWorker EXCEPT !.pc = "ConsumeMessageResponse:lookup",
                                    !.t = t, !.p = lookup.peer, !.msg = msg]]
     /\ lastOp' = Returned("ConsumeMessageResponse", t, lookup.peer, "", "", 0, msg.Sender)
     /\ UNCHANGED <<now, nextEph, hs, indexTable, keypairs, heap, netInit, netResp,
                    hsMsgs, kpMsgs>>

\* lines 467-527, under handshake.mutex.RLock
ConsumeResponseCheck(t, h, msg) ==
  LET h1 == mixHash(h.hash, msg.Ephemeral)
      c1 == mixKey(h.chainKey, msg.Ephemeral)
      dh1 == sharedSecret(h.localEphemeral, msg.Ephemeral)
      c2 == mixKey(c1, dh1.ss)
      dh2 == sharedSecret(StaticPrivateKey(t), msg.Ephemeral)
      c3 == mixKey(c2, dh2.ss)
      c4 == KDF(1, c3, h.presharedKey)
      tau == KDF(2, c3, h.presharedKey)
      key == KDF(3, c3, h.presharedKey)
      h2 == mixHash(h1, tau)
      h3 == mixHash(h2, msg.Empty)
  IN IF h.state # handshakeInitiationCreated THEN [ok |-> FALSE, why |-> "state", aead |-> 0]
     ELSE IF dh1.err \/ dh2.err THEN [ok |-> FALSE, why |-> "shared secret", aead |-> 0]
     ELSE IF ~OpenOk(key, ZeroNonce, msg.Empty, h2)
       THEN [ok |-> FALSE, why |-> "transcript", aead |-> 1]
     ELSE [ok |-> TRUE, why |-> "", aead |-> 1, hash |-> h3, chainKey |-> c4]


\* a call that clears the handshake when the response does not authenticate
ConsumeMessageResponseFailsClearing(w) ==
  LET l == wk[w]
      r == ConsumeResponseCheck(l.t, hs[l.t][l.p], l.msg)
  IN /\ l.pc = "ConsumeMessageResponse:lookup"
     /\ ~r.ok
     /\ hs' = [hs EXCEPT ![l.t][l.p] = Clear(@)]
     /\ wk' = [wk EXCEPT ![w] = IdleWorker]
     /\ lastOp' = Returned("ConsumeMessageResponse", l.t, l.p, "nil", r.why, r.aead,
                           l.msg.Sender)
     /\ UNCHANGED <<now, nextEph, indexTable, keypairs, heap, netInit, netResp,
                    hsMsgs, kpMsgs>>

ConsumeMessageResponseFails(w) ==
  LET l == wk[w]
      r == ConsumeResponseCheck(l.t, hs[l.t][l.p], l.msg)
  IN /\ l.pc = "ConsumeMessageResponse:lookup"
     /\ ~r.ok
     /\ wk' = [wk EXCEPT ![w] = IdleWorker]
     /\ lastOp' = Returned("ConsumeMessageResponse", l.t, l.p, "nil", r.why, r.aead,
                           l.msg.Sender)
     /\ UNCHANGED <<now, nextEph, hs, indexTable, keypairs, heap, netInit, netResp,
                    hsMsgs, kpMsgs>>

ConsumeMessageResponseChecks(w) ==
  LET l == wk[w]
      r == ConsumeResponseCheck(l.t, hs[l.t][l.p], l.msg)
  IN /\ l.pc = "ConsumeMessageResponse:lookup"
     /\ r.ok
     /\ wk' = [wk EXCEPT ![w] =
                 [l EXCEPT !.pc = "ConsumeMessageResponse", !.hash = r.hash,
                           !.chainKey = r.chainKey]]
     /\ lastOp' = Returned("ConsumeMessageResponse", l.t, l.p, "", "", r.aead, l.msg.Sender)
     /\ UNCHANGED <<now, nextEph, hs, indexTable, keypairs, heap, netInit, netResp,
                    hsMsgs, kpMsgs>>


\* a commit that leaves remoteIndex as it was
ConsumeResponseCommitKeepingIndex(h, l) ==
  [h EXCEPT !.hash = l.hash,
            !.chainKey = l.chainKey,
            !.state = handshakeResponseConsumed]

\* lines 533-547, under handshake.mutex.Lock
ConsumeResponseCommit(h, l) ==
  [h EXCEPT !.hash = l.hash,
            !.chainKey = l.chainKey,
            !.remoteIndex = l.msg.Sender,
            !.state = handshakeResponseConsumed]

ConsumeMessageResponseCommits(w) ==
  LET l == wk[w]
  IN /\ l.pc = "ConsumeMessageResponse"
     /\ hs' = [hs EXCEPT ![l.t][l.p] = ConsumeResponseCommit(hs[l.t][l.p], l)]
     /\ hsMsgs' = [hsMsgs EXCEPT ![l.t][l.p].rcvd = ResponseId(l.msg)]
     /\ wk' = [wk EXCEPT ![w] = IdleWorker]
     /\ lastOp' = Returned("ConsumeMessageResponse", l.t, l.p, "peer", "", 1, l.msg.Sender)
     /\ UNCHANGED <<now, nextEph, indexTable, keypairs, heap, netInit, netResp, kpMsgs>>

(***************************************************************************)
(* Keypairs.  A Keypair object is heap[t][k]; a slot holds k, or 0 for nil.*)
(***************************************************************************)
\* Transport.DeleteKeypair: revoke the index and zero the keys.  st is the
\* index table and the heap of a transport.
DeleteKeypair(st, k) ==
  IF k = 0
    THEN st
    ELSE [ tab |-> Delete(st.tab, st.heap[k].localIndex),
           heap |-> [st.heap EXCEPT ![k].send = setZero,
                                    ![k].receive = setZero,
                                    ![k].deleted = @ + 1] ]


\* a derivation that orders the keys of the responder as those of the initiator
DeriveKeysSameOrder(h) ==
  [ isInitiator |-> h.state = handshakeResponseConsumed,
    sendKey |-> KDF(1, h.chainKey, Empty), recvKey |-> KDF(2, h.chainKey, Empty) ]

\* lines 559-583: the keys a handshake in state ResponseConsumed or
\* ResponseCreated yields
DeriveKeys(h) ==
  IF h.state = handshakeResponseConsumed
    THEN [ isInitiator |-> TRUE,
           sendKey |-> KDF(1, h.chainKey, Empty), recvKey |-> KDF(2, h.chainKey, Empty) ]
    ELSE [ isInitiator |-> FALSE,
           recvKey |-> KDF(1, h.chainKey, Empty), sendKey |-> KDF(2, h.chainKey, Empty) ]

\* lines 594-605
NewKeypair(h, d) ==
  [ send |-> d.sendKey,
    receive |-> d.recvKey,
    created |-> now,
    isInitiator |-> d.isInitiator,
    localIndex |-> h.localIndex,
    remoteIndex |-> h.remoteIndex,
    deleted |-> 0 ]

\* lines 585-590 and 610
ZeroHandshake(h) ==
  [h EXCEPT !.chainKey = setZero,
            !.hash = setZero,
            !.localEphemeral = setZero,
            !.state = handshakeZeroed,
            !.localIndex = 0]


\* a rotation that, for an initiator with a next keypair, does not delete
\* the keypair that was current
RotateKeepingCurrent(slots, st, k, isInitiator) ==
  IF isInitiator
    THEN IF slots.next # 0
           THEN [ slots |-> [previous |-> slots.next, current |-> k, next |-> 0],
                  st |-> DeleteKeypair(st, slots.previous) ]
           ELSE [ slots |-> [previous |-> slots.current, current |-> k, next |-> 0],
                  st |-> DeleteKeypair(st, slots.previous) ]
    ELSE [ slots |-> [previous |-> 0, current |-> slots.current, next |-> k],
           st |-> DeleteKeypair(DeleteKeypair(st, slots.next), slots.previous) ]

\* a rotation that, for an initiator, does not delete the keypair that was
\* previous
RotateKeepingPrevious(slots, st, k, isInitiator) ==
  IF isInitiator
    THEN IF slots.next # 0
           THEN [ slots |-> [previous |-> slots.next, current |-> k, next |-> 0],
                  st |-> DeleteKeypair(st, slots.current) ]
           ELSE [ slots |-> [previous |-> slots.current, current |-> k, next |-> 0],
                  st |-> st ]
    ELSE [ slots |-> [previous |-> 0, current |-> slots.current, next |-> k],
           st |-> DeleteKeypair(DeleteKeypair(st, slots.next), slots.previous) ]

\* a rotation that, for an initiator without a next keypair, deletes the
\* keypair that was current as well
RotateDeletingCurrent(slots, st, k, isInitiator) ==
  IF isInitiator
    THEN IF slots.next # 0
           THEN [ slots |-> [previous |-> slots.next, current |-> k, next |-> 0],
                  st |-> DeleteKeypair(DeleteKeypair(st, slots.current), slots.previous) ]
           ELSE [ slots |-> [previous |-> slots.current, current |-> k, next |-> 0],
                  st |-> DeleteKeypair(DeleteKeypair(st, slots.current), slots.previous) ]
    ELSE [ slots |-> [previous |-> 0, current |-> slots.current, next |-> k],
           st |-> DeleteKeypair(DeleteKeypair(st, slots.next), slots.previous) ]

\* a rotation that, for a responder, promotes the new keypair to current at once
RotatePromotingAtOnce(slots, st, k, isInitiator) ==
  IF isInitiator
    THEN IF slots.next # 0
           THEN [ slots |-> [previous |-> slots.next, current |-> k, next |-> 0],
                  st |-> DeleteKeypair(DeleteKeypair(st, slots.current), slots.previous) ]
           ELSE [ slots |-> [previous |-> slots.current, current |-> k, next |-> 0],
                  st |-> DeleteKeypair(st, slots.previous) ]
    ELSE [ slots |-> [previous |-> slots.current, current |-> k, next |-> 0],
           st |-> DeleteKeypair(DeleteKeypair(st, slots.next), slots.previous) ]

\* lines 612-637, under keypairs.Lock: the slots, the index table and the
\* heap after the new keypair k is rotated in
Rotate(slots, st, k, isInitiator) ==
  IF isInitiator
    THEN IF slots.next # 0
           THEN [ slots |-> [previous |-> slots.next, current |-> k, next |-> 0],
                  st |-> DeleteKeypair(DeleteKeypair(st, slots.current), slots.previous) ]
           ELSE [ slots |-> [previous |-> slots.current, current |-> k, next |-> 0],
                  st |-> DeleteKeypair(st, slots.previous) ]
    ELSE [ slots |-> [previous |-> 0, current |-> slots.current, next |-> k],
           st |-> DeleteKeypair(DeleteKeypair(st, slots.next), slots.previous) ]

(***************************************************************************)
(* Peer.BeginSymmetricSession(), under handshake.mutex.Lock.               *)
(***************************************************************************)
BeginSymmetricSessionFails(t, p) ==
  /\ hs[t][p].state \notin {handshakeResponseConsumed, handshakeResponseCreated}
  /\ lastOp' = Returned("BeginSymmetricSession", t, p, "err",
                        "invalid state for keypair derivation", 0, 0)
  /\ UNCHANGED <<now, nextEph, hs, indexTable, keypairs, heap, netInit, netResp, wk,
                 hsMsgs, kpMsgs>>


\* a call that also derives a keypair from a handshake whose initiation was
\* consumed but whose response was not created
BeginSymmetricSessionBeforeResponse(t, p) ==
  LET h == hs[t][p]
      d == DeriveKeys(h)
      k == Len(heap[t]) + 1
      swapped == [ tab |-> SwapIndexForKeypair(indexTable[t], h.localIndex, k),
                   heap |-> Append(heap[t], NewKeypair(h, d)) ]
      r == Rotate(keypairs[t][p], swapped, k, d.isInitiator)
  IN /\ h.state \in {handshakeResponseConsumed, handshakeResponseCreated,
                     handshakeInitiationConsumed}
     /\ hs' = [hs EXCEPT ![t][p] = ZeroHandshake(h)]
     /\ indexTable' = [indexTable EXCEPT ![t] = r.st.tab]
     /\ heap' = [heap EXCEPT ![t] = r.st.heap]
     /\ keypairs' = [keypairs EXCEPT ![t][p] = r.slots]
     /\ kpMsgs' = [kpMsgs EXCEPT ![t] = Append(@, hsMsgs[t][p])]
     /\ lastOp' = Returned("BeginSymmetricSession", t, p, "ok", "", 0, 0)
     /\ UNCHANGED <<now, nextEph, netInit, netResp, wk, hsMsgs>>

BeginSymmetricSession(t, p) ==
  LET h == hs[t][p]
      d == DeriveKeys(h)
      k == Len(heap[t]) + 1
      swapped == [ tab |-> SwapIndexForKeypair(indexTable[t], h.localIndex, k),
                   heap |-> Append(heap[t], NewKeypair(h, d)) ]
      r == Rotate(keypairs[t][p], swapped, k, d.isInitiator)
  IN /\ h.state \in {handshakeResponseConsumed, handshakeResponseCreated}
     /\ hs' = [hs EXCEPT ![t][p] = ZeroHandshake(h)]
     /\ indexTable' = [indexTable EXCEPT ![t] = r.st.tab]
     /\ heap' = [heap EXCEPT ![t] = r.st.heap]
     /\ keypairs' = [keypairs EXCEPT ![t][p] = r.slots]
     /\ kpMsgs' = [kpMsgs EXCEPT ![t] = Append(@, hsMsgs[t][p])]
     /\ lastOp' = Returned("BeginSymmetricSession", t, p, "ok", "", 0, 0)
     /\ UNCHANGED <<now, nextEph, netInit, netResp, wk, hsMsgs>>

(***************************************************************************)
(* Peer.ReceivedWithKeypair(receivedKeypair): the first load of next is    *)
(* outside the lock, the second under keypairs.Lock.                       *)
(***************************************************************************)
ReceivedWithKeypairFalse(t, p, k) ==
  /\ keypairs[t][p].next # k
  /\ lastOp' = Returned("ReceivedWithKeypair", t, p, "false", "", 0, 0)
  /\ UNCHANGED <<now, nextEph, hs, indexTable, keypairs, heap, netInit, netResp, wk,
                 hsMsgs, kpMsgs>>

\* a promotion that forgets the keypair that was current
ReceivedWithKeypairDroppingCurrent(t, p, k) ==
  LET slots == keypairs[t][p]
      st == DeleteKeypair([tab |-> indexTable[t], heap |-> heap[t]], slots.previous)
  IN /\ slots.next = k
     /\ keypairs' = [keypairs EXCEPT ![t][p] =
                       [previous |-> 0, current |-> slots.next, next |-> 0]]
     /\ indexTable' = [indexTable EXCEPT ![t] = st.tab]
     /\ heap' = [heap EXCEPT ![t] = st.heap]
     /\ lastOp' = Returned("ReceivedWithKeypair", t, p, "true", "", 0, 0)
     /\ UNCHANGED <<now, nextEph, hs, netInit, netResp, wk, hsMsgs, kpMsgs>>

\* a promotion that deletes the keypair that was current, which it moves to
\* previous, instead of the keypair that was previous
ReceivedWithKeypairDeletingCurrent(t, p, k) ==
  LET slots == keypairs[t][p]
      st == DeleteKeypair([tab |-> indexTable[t], heap |-> heap[t]], slots.current)
  IN /\ slots.next = k
     /\ keypairs' = [keypairs EXCEPT ![t][p] =
                       [previous |-> slots.current, current |-> slots.next, next |-> 0]]
     /\ indexTable' = [indexTable EXCEPT ![t] = st.tab]
     /\ heap' = [heap EXCEPT ![t] = st.heap]
     /\ lastOp' = Returned("ReceivedWithKeypair", t, p, "true", "", 0, 0)
     /\ UNCHANGED <<now, nextEph, hs, netInit, netResp, wk, hsMsgs, kpMsgs>>

ReceivedWithKeypair(t, p, k) ==
  LET slots == keypairs[t][p]
      st == DeleteKeypair([tab |-> indexTable[t], heap |-> heap[t]], slots.previous)
  IN /\ slots.next = k
     /\ keypairs' = [keypairs EXCEPT ![t][p] =
                       [previous |-> slots.current, current |-> slots.next, next |-> 0]]
     /\ indexTable' = [indexTable EXCEPT ![t] = st.tab]
     /\ heap' = [heap EXCEPT ![t] = st.heap]
     /\ lastOp' = Returned("ReceivedWithKeypair", t, p, "true", "", 0, 0)
     /\ UNCHANGED <<now, nextEph, hs, netInit, netResp, wk, hsMsgs, kpMsgs>>

(***************************************************************************)
(* The expiry of a peer's ephemeral state (timerKillEphemerals): every     *)
(* keypair is deleted, the handshake's index is revoked and the handshake  *)
(* is cleared.                                                             *)
(***************************************************************************)
ExpireEphemerals(t, p) ==
  LET slots == keypairs[t][p]
      st == DeleteKeypair(DeleteKeypair(DeleteKeypair(
              [tab |-> indexTable[t], heap |-> heap[t]],
              slots.previous), slots.current), slots.next)
  IN /\ hs[t][p].state # handshakeZeroed \/ slots # NoSlots
     /\ keypairs' = [keypairs EXCEPT ![t][p] = NoSlots]
     /\ heap' = [heap EXCEPT ![t] = st.heap]
     /\ indexTable' = [indexTable EXCEPT ![t] = Delete(st.tab, hs[t][p].localIndex)]
     /\ hs' = [hs EXCEPT ![t][p] = Clear(@)]
     /\ lastOp' = Returned("ExpireEphemerals", t, p, "ok", "", 0, 0)
     /\ UNCHANGED <<now, nextEph, netInit, netResp, wk, hsMsgs, kpMsgs>>

Tick ==
  /\ now < StartTime + MaxTicks * TickMs
  /\ now' = now + TickMs
  /\ lastOp' = Returned("Tick", "", "", "", "", 0, 0)
  /\ UNCHANGED <<nextEph, hs, indexTable, keypairs, heap, netInit, netResp, wk,
                 hsMsgs, kpMsgs>>

(***************************************************************************)
(* Spec: one receive worker, a network on which an adversary also replays  *)
(* and tampers, and every call of the handshake and of the session; the    *)
(* clock stands still.                                                     *)
(***************************************************************************)
Next ==
  \/ \E t \in Transports : nextEph < MaxEph /\ CreateMessageInitiation(t, Other(t))
       /\ UNCHANGED others
  \/ \E t \in Transports : \E msg \in InitiationInputs(t) :
       ConsumeMessageInitiationRejects(t, msg)
       /\ UNCHANGED others
  \/ \E t \in Transports : \E msg \in InitiationInputs(t) :
       ConsumeMessageInitiationChecks("w1", t, msg)
       /\ UNCHANGED others
  \/ ConsumeMessageInitiationCommits("w1")
       /\ UNCHANGED others
  \/ \E t \in Transports : CreateMessageResponseFails(t, Other(t))
       /\ UNCHANGED others
  \/ \E t \in Transports : nextEph < MaxEph /\ CreateMessageResponse(t, Other(t))
       /\ UNCHANGED others
  \/ \E t \in Transports : \E msg \in ResponseInputs(t) : ConsumeMessageResponseRejects(t, msg)
       /\ UNCHANGED others
  \/ \E t \in Transports : \E msg \in ResponseInputs(t) :
       ConsumeMessageResponseLooksUp("w1", t, msg)
       /\ UNCHANGED others
  \/ ConsumeMessageResponseFails("w1")
       /\ UNCHANGED others
  \/ ConsumeMessageResponseChecks("w1")
       /\ UNCHANGED others
  \/ ConsumeMessageResponseCommits("w1")
       /\ UNCHANGED others
  \/ \E t \in Transports : BeginSymmetricSessionFails(t, Other(t))
       /\ UNCHANGED others
  \/ \E t \in Transports : BeginSymmetricSession(t, Other(t))
       /\ UNCHANGED others
  \/ \E t \in Transports : \E k \in 0..Len(heap[t]) :
       ReceivedWithKeypairFalse(t, Other(t), k)
       /\ UNCHANGED others
  \/ \E t \in Transports : \E k \in 1..Len(heap[t]) : ReceivedWithKeypair(t, Other(t), k)
       /\ UNCHANGED others

Spec == Init /\ [][Next]_vars

(***************************************************************************)
(* SpecRace: two receive workers run the calls of the handshake            *)
(* concurrently on the datagrams that were sent.                           *)
(***************************************************************************)
NextRace ==
  \/ \E t \in Transports : nextEph < MaxEph /\ CreateMessageInitiation(t, Other(t))
       /\ UNCHANGED others
  \/ \E t \in Transports : \E msg \in netInit : ConsumeMessageInitiationRejects(t, msg)
       /\ UNCHANGED others
  \/ \E w \in Workers : \E t \in Transports : \E msg \in netInit :
       ConsumeMessageInitiationChecks(w, t, msg)
       /\ UNCHANGED others
  \/ \E w \in Workers : ConsumeMessageInitiationCommits(w)
       /\ UNCHANGED others
  \/ \E t \in Transports : nextEph < MaxEph /\ CreateMessageResponse(t, Other(t))
       /\ UNCHANGED others
  \/ \E t \in Transports : \E msg \in netResp : ConsumeMessageResponseRejects(t, msg)
       /\ UNCHANGED others
  \/ \E w \in Workers : \E t \in Transports : \E msg \in netResp :
       ConsumeMessageResponseLooksUp(w, t, msg)
       /\ UNCHANGED others
  \/ \E w \in Workers : ConsumeMessageResponseFails(w)
       /\ UNCHANGED others
  \/ \E w \in Workers : ConsumeMessageResponseChecks(w)
       /\ UNCHANGED others
  \/ \E w \in Workers : ConsumeMessageResponseCommits(w)
       /\ UNCHANGED others
  \/ \E t \in Transports : BeginSymmetricSession(t, Other(t))
       /\ UNCHANGED others

SpecRace == Init /\ [][NextRace]_vars

(***************************************************************************)
(* SpecFlood: the initiations a transport is sent, by its peer and by an   *)
(* adversary, as the clock advances.                                       *)
(***************************************************************************)
NextFlood ==
  \/ \E t \in Transports : \E p \in {Other(t), "Z"} :
       nextEph < MaxEph /\ CreateMessageInitiation(t, p)
       /\ UNCHANGED others
  \/ \E t \in Transports : \E p \in {Other(t), "Z"} :
       nextEph < MaxEph /\ CreateMessageInitiationFails(t, p)
       /\ UNCHANGED others
  \/ \E t \in Transports : \E msg \in InitiationInputs(t) :
       ConsumeMessageInitiationRejects(t, msg)
       /\ UNCHANGED others
  \/ \E t \in Transports : \E msg \in InitiationInputs(t) :
       ConsumeMessageInitiationChecks("w1", t, msg)
       /\ UNCHANGED others
  \/ ConsumeMessageInitiationCommits("w1")
       /\ UNCHANGED others
  \/ Tick
       /\ UNCHANGED others

SpecFlood == Init /\ [][NextFlood]_vars

(***************************************************************************)
(* SpecExpiry: the initiations a transport is sent as the clock advances   *)
(* and its peers' ephemeral state expires.                                 *)
(***************************************************************************)
NextExpiry ==
  \/ \E t \in Transports : nextEph < MaxEph /\ CreateMessageInitiation(t, Other(t))
       /\ UNCHANGED others
  \/ \E t \in Transports : \E msg \in netInit : ConsumeMessageInitiationRejects(t, msg)
       /\ UNCHANGED others
  \/ \E t \in Transports : \E msg \in netInit : ConsumeMessageInitiationChecks("w1", t, msg)
       /\ UNCHANGED others
  \/ ConsumeMessageInitiationCommits("w1")
       /\ UNCHANGED others
  \/ \E t \in Transports : ExpireEphemerals(t, Other(t))
       /\ UNCHANGED others
  \/ Tick
       /\ UNCHANGED others

SpecExpiry == Init /\ [][NextExpiry]_vars

(***************************************************************************)
(* SpecRekey: the calls of the handshake and of the session on the         *)
(* datagrams that were sent, with one more ephemeral key.                  *)
(***************************************************************************)
NextRekey ==
  \/ \E t \in Transports : nextEph < MaxEphRekey /\ CreateMessageInitiation(t, Other(t))
       /\ UNCHANGED others
  \/ \E t \in Transports : \E msg \in netInit : ConsumeMessageInitiationRejects(t, msg)
       /\ UNCHANGED others
  \/ \E t \in Transports : \E msg \in netInit : ConsumeMessageInitiationChecks("w1", t, msg)
       /\ UNCHANGED others
  \/ ConsumeMessageInitiationCommits("w1")
       /\ UNCHANGED others
  \/ \E t \in Transports : CreateMessageResponseFails(t, Other(t))
       /\ UNCHANGED others
  \/ \E t \in Transports : nextEph < MaxEphRekey /\ CreateMessageResponse(t, Other(t))
       /\ UNCHANGED others
  \/ \E t \in Transports : \E msg \in netResp : ConsumeMessageResponseRejects(t, msg)
       /\ UNCHANGED others
  \/ \E t \in Transports : \E msg \in netResp : ConsumeMessageResponseLooksUp("w1", t, msg)
       /\ UNCHANGED others
  \/ ConsumeMessageResponseFails("w1")
       /\ UNCHANGED others
  \/ ConsumeMessageResponseChecks("w1")
       /\ UNCHANGED others
  \/ ConsumeMessageResponseCommits("w1")
       /\ UNCHANGED others
  \/ \E t \in Transports : BeginSymmetricSession(t, Other(t))
       /\ UNCHANGED others

SpecRekey == Init /\ [][NextRekey]_vars

(***************************************************************************)
(* SpecRotation: handshake after handshake between the two transports, on  *)
(* the datagrams that were sent, with the promotion of the next keypair    *)
(* and a clock that advances past RekeyAfterTime between handshakes.       *)
(***************************************************************************)
InitRotation ==
  /\ now = StartTime
  /\ nextEph = 0
  /\ hs = [t \in Transports |-> [p \in PeersOf(t) |-> NewHandshake(t, p)]]
  /\ indexTable = [t \in Transports |-> [i \in 0..MaxIndexRotation |-> NoEntry]]
  /\ keypairs = [t \in Transports |-> [p \in PeersOf(t) |-> NoSlots]]
  /\ heap = [t \in Transports |-> <<>>]
  /\ netInit = {}
  /\ netResp = {}
  /\ wk = [w \in Workers |-> IdleWorker]
  /\ lastOp = Returned("none", "", "", "", "", 0, 0)
  /\ hsMsgs = [t \in Transports |-> [p \in PeersOf(t) |-> NoMsgs]]
  /\ kpMsgs = [t \in Transports |-> <<>>]
  /\ InitOthers

\* no handshake is under way
Quiet == \A t \in Transports : hs[t][Other(t)].state = handshakeZeroed

\* the session grows old: the clock advances to one second past RekeyAfterTime
SessionAges ==
  /\ now < StartTime + MaxRekeys * (RekeyAfterTime + 1000)
  /\ now' = now + RekeyAfterTime + 1000
  /\ lastOp' = Returned("SessionAges", "", "", "", "", 0, 0)
  /\ UNCHANGED <<nextEph, hs, indexTable, keypairs, heap, netInit, netResp, wk,
                 hsMsgs, kpMsgs>>

NextRotation ==
  \/ \E t \in Transports :
       Quiet /\ nextEph < MaxEphRotation /\ CreateMessageInitiation(t, Other(t))
       /\ UNCHANGED others
  \/ \E t \in Transports : \E msg \in netInit : ConsumeMessageInitiationChecks("w1", t, msg)
       /\ UNCHANGED others
  \/ ConsumeMessageInitiationCommits("w1")
       /\ UNCHANGED others
  \/ \E t \in Transports : nextEph < MaxEphRotation /\ CreateMessageResponse(t, Other(t))
       /\ UNCHANGED others
  \/ \E t \in Transports : \E msg \in netResp : ConsumeMessageResponseLooksUp("w1", t, msg)
       /\ UNCHANGED others
  \/ ConsumeMessageResponseChecks("w1")
       /\ UNCHANGED others
  \/ ConsumeMessageResponseCommits("w1")
       /\ UNCHANGED others
  \/ \E t \in Transports : BeginSymmetricSession(t, Other(t))
       /\ UNCHANGED others
  \/ \E t \in Transports : \E k \in 1..Len(heap[t]) : ReceivedWithKeypair(t, Other(t), k)
       /\ UNCHANGED others
  \/ Quiet /\ SessionAges
       /\ UNCHANGED others

SpecRotation == InitRotation /\ [][NextRotation]_vars

(***************************************************************************)
(* SpecPromotion: two handshakes one after the other, and the receive path *)
(* reporting datagrams received with any keypair a peer has had, so that   *)
(* ReceivedWithKeypair is called with the keypair in next, in current and  *)
(* in previous, and with deleted ones.                                     *)
(***************************************************************************)
NextPromotion ==
  \/ \E t \in Transports :
       Quiet /\ nextEph < MaxEphPromotion /\ CreateMessageInitiation(t, Other(t))
       /\ UNCHANGED others
  \/ \E t \in Transports : \E msg \in netInit : ConsumeMessageInitiationChecks("w1", t, msg)
       /\ UNCHANGED others
  \/ ConsumeMessageInitiationCommits("w1")
       /\ UNCHANGED others
  \/ \E t \in Transports : nextEph < MaxEphPromotion /\ CreateMessageResponse(t, Other(t))
       /\ UNCHANGED others
  \/ \E t \in Transports : \E msg \in netResp : ConsumeMessageResponseLooksUp("w1", t, msg)
       /\ UNCHANGED others
  \/ ConsumeMessageResponseChecks("w1")
       /\ UNCHANGED others
  \/ ConsumeMessageResponseCommits("w1")
       /\ UNCHANGED others
  \/ \E t \in Transports : BeginSymmetricSession(t, Other(t))
       /\ UNCHANGED others
  \/ \E t \in Transports : \E k \in 1..Len(heap[t]) :
       ReceivedWithKeypairFalse(t, Other(t), k)
       /\ UNCHANGED others
  \/ \E t \in Transports : \E k \in 1..Len(heap[t]) : ReceivedWithKeypair(t, Other(t), k)
       /\ UNCHANGED others

SpecPromotion == InitRotation /\ [][NextPromotion]_vars

(***************************************************************************)
(* Peer.ReceivedWithKeypair(receivedKeypair) step by step, as the receive  *)
(* workers run it side by side: the first load of next is outside the lock *)
(* (645), the second load and the promotion are under keypairs.Lock        *)
(* (648-658), the lock BeginSymmetricSession rotates the slots under.      *)
(***************************************************************************)
\* the call of a worker that saw receivedKeypair k in next at the first
\* load.  seen and done are history: the number of keypairs the transport
\* had made at the first load and at the return.
ReceiveCall(t, p, k) ==
  [ pc |-> "ReceivedWithKeypair:Lock", t |-> t, p |-> p, keypair |-> k,
    ret |-> "", seen |-> Len(heap[t]), done |-> 0 ]

\* line 645, the load that finds receivedKeypair in next
ReceivedWithKeypairLoads(w, t, p, k) ==
  /\ wk[w].pc = "idle"
  /\ keypairs[t][p].next = k
  /\ wk' = [wk EXCEPT ![w] = ReceiveCall(t, p, k)]
  /\ UNCHANGED <<now, nextEph, hs, indexTable, keypairs, heap, netInit, netResp,
                 lastOp, hsMsgs, kpMsgs>>

\* lines 648-658 without the second load of next
ReceivedWithKeypairLockedUnchecked(w) ==
  LET l == wk[w]
      slots == keypairs[l.t][l.p]
      st == DeleteKeypair([tab |-> indexTable[l.t], heap |-> heap[l.t]],
                          slots.previous)
  IN /\ l.pc = "ReceivedWithKeypair:Lock"
     /\ keypairs' = [keypairs EXCEPT ![l.t][l.p] =
                       [previous |-> slots.current, current |-> slots.next,
                        next |-> 0]]
     /\ indexTable' = [indexTable EXCEPT ![l.t] = st.tab]
     /\ heap' = [heap EXCEPT ![l.t] = st.heap]
     /\ wk' = [wk EXCEPT ![w] = [l EXCEPT !.pc = "ReceivedWithKeypair:returned",
                                          !.ret = "true",
                                          !.done = Len(heap[l.t])]]
     /\ lastOp' = Returned("ReceivedWithKeypair", l.t, l.p, "true", "", 0, 0)
     /\ UNCHANGED <<now, nextEph, hs, netInit, netResp, hsMsgs, kpMsgs>>

\* lines 648-658, under keypairs.Lock
ReceivedWithKeypairLocked(w) ==
  LET l == wk[w]
      slots == keypairs[l.t][l.p]
      st == DeleteKeypair([tab |-> indexTable[l.t], heap |-> heap[l.t]],
                          slots.previous)
  IN /\ l.pc = "ReceivedWithKeypair:Lock"
     /\ IF slots.next # l.keypair
          THEN /\ wk' = [wk EXCEPT ![w] =
                           [l EXCEPT !.pc = "ReceivedWithKeypair:returned",
                                     !.ret = "false",
                                     !.done = Len(heap[l.t])]]
               /\ lastOp' = Returned("ReceivedWithKeypair", l.t, l.p, "false",
                                     "", 0, 0)
               /\ UNCHANGED <<keypairs, indexTable, heap>>
          ELSE /\ keypairs' = [keypairs EXCEPT ![l.t][l.p] =
                                 [previous |-> slots.current,
                                  current |-> slots.next, next |-> 0]]
               /\ indexTable' = [indexTable EXCEPT ![l.t] = st.tab]
               /\ heap' = [heap EXCEPT ![l.t] = st.heap]
               /\ wk' = [wk EXCEPT ![w] =
                           [l EXCEPT !.pc = "ReceivedWithKeypair:returned",
                                     !.ret = "true",
                                     !.done = Len(heap[l.t])]]
               /\ lastOp' = Returned("ReceivedWithKeypair", l.t, l.p, "true",
                                     "", 0, 0)
     /\ UNCHANGED <<now, nextEph, hs, netInit, netResp, hsMsgs, kpMsgs>>

(***************************************************************************)
(* SpecPromotionRace: two handshakes one after the other, while each of    *)
(* the receive workers reports one datagram received with a keypair it     *)
(* found in next, side by side with the other worker and with              *)
(* BeginSymmetricSession.                                                  *)
(***************************************************************************)
NextPromotionRace ==
  \/ \E t \in Transports :
       Quiet /\ nextEph < MaxEphPromotion /\ CreateMessageInitiation(t, Other(t))
       /\ UNCHANGED others
  \/ \E t \in Transports : \E msg \in netInit : ConsumeMessageInitiationChecks("w1", t, msg)
       /\ UNCHANGED others
  \/ ConsumeMessageInitiationCommits("w1")
       /\ UNCHANGED others
  \/ \E t \in Transports : nextEph < MaxEphPromotion /\ CreateMessageResponse(t, Other(t))
       /\ UNCHANGED others
  \/ \E t \in Transports : \E msg \in netResp : ConsumeMessageResponseLooksUp("w1", t, msg)
       /\ UNCHANGED others
  \/ ConsumeMessageResponseChecks("w1")
       /\ UNCHANGED others
  \/ ConsumeMessageResponseCommits("w1")
       /\ UNCHANGED others
  \/ \E t \in Transports : BeginSymmetricSession(t, Other(t))
       /\ UNCHANGED others
  \/ \E w \in Workers : \E t \in Transports : \E k \in 1..Len(heap[t]) :
       ReceivedWithKeypairLoads(w, t, Other(t), k)
       /\ UNCHANGED others
  \/ \E w \in Workers : ReceivedWithKeypairLocked(w)
       /\ UNCHANGED others

SpecPromotionRace == InitRotation /\ [][NextPromotionRace]_vars

(***************************************************************************)
(* SpecCrossing: either transport creates an initiation whenever it likes, *)
(* also while a handshake is under way, the clock advances, and one        *)
(* receive worker consumes the datagrams that were sent and that pass the  *)
(* first checks: an initiation reaches a handshake in each of its five     *)
(* states.  No session begins.                                             *)
(***************************************************************************)
NextCrossing ==
  \/ \E t \in Transports :
       nextEph < MaxEphCrossing /\ CreateMessageInitiation(t, Other(t))
       /\ UNCHANGED others
  \/ \E t \in Transports : \E msg \in netInit : ConsumeMessageInitiationChecks("w1", t, msg)
       /\ UNCHANGED others
  \/ ConsumeMessageInitiationCommits("w1")
       /\ UNCHANGED others
  \/ \E t \in Transports : nextEph < MaxEphCrossing /\ CreateMessageResponse(t, Other(t))
       /\ UNCHANGED others
  \/ \E t \in Transports : \E msg \in netResp : ConsumeMessageResponseLooksUp("w1", t, msg)
       /\ UNCHANGED others
  \/ ConsumeMessageResponseFails("w1")
       /\ UNCHANGED others
  \/ ConsumeMessageResponseChecks("w1")
       /\ UNCHANGED others
  \/ ConsumeMessageResponseCommits("w1")
       /\ UNCHANGED others
  \/ Tick
       /\ UNCHANGED others

SpecCrossing == Init /\ [][NextCrossing]_vars

(***************************************************************************)
(* The locks the calls on one peer take, in the order the code takes and   *)
(* releases them, one program for each path through the call that differs  *)
(* in its locks.  A deferred unlock runs at the return, last deferred       *)
(* first.                                                                  *)
(***************************************************************************)
\* CreateMessageInitiation, lines 206-211: staticIdentity.RLock, then
\* handshake.mutex.Lock.
\* ConsumeMessageInitiation, lines 285-371: a return before the handshake
\* is read (290-318), a return under or after the read lock (320-353), and
\* the commit (356-371).
\* CreateMessageResponse, lines 381-382.
\* ConsumeMessageResponse, lines 470-542: the state is not InitiationCreated
\* (473-476), the response does not authenticate (480-525), and the commit
\* (535-542).
\* BeginSymmetricSession, lines 556-616: an invalid state (581-583), and
\* the rotation.
\* ReceivedWithKeypair, lines 648-649.
\* RekeyIdentity: the rekey of the identity, the writer of staticIdentity.
LockPrograms ==
  [ CreateMessageInitiation |->
      { << <<"RLock", "staticIdentity">>, <<"Lock", "handshake">>,
           <<"Unlock", "handshake">>, <<"RUnlock", "staticIdentity">> >> },
    ConsumeMessageInitiation |->
      { << <<"RLock", "staticIdentity">>, <<"RUnlock", "staticIdentity">> >>,
        << <<"RLock", "staticIdentity">>, <<"RLock", "handshake">>,
           <<"RUnlock", "handshake">>, <<"RUnlock", "staticIdentity">> >>,
        << <<"RLock", "staticIdentity">>, <<"RLock", "handshake">>,
           <<"RUnlock", "handshake">>, <<"Lock", "handshake">>,
           <<"Unlock", "handshake">>, <<"RUnlock", "staticIdentity">> >> },
    CreateMessageResponse |->
      { << <<"Lock", "handshake">>, <<"Unlock", "handshake">> >> },
    ConsumeMessageResponse |->
      { << <<"RLock", "handshake">>, <<"RUnlock", "handshake">> >>,
        << <<"RLock", "handshake">>, <<"RLock", "staticIdentity">>,
           <<"RUnlock", "staticIdentity">>, <<"RUnlock", "handshake">> >>,
        << <<"RLock", "handshake">>, <<"RLock", "staticIdentity">>,
           <<"RUnlock", "staticIdentity">>, <<"RUnlock", "handshake">>,
           <<"Lock", "handshake">>, <<"Unlock", "handshake">> >> },
    BeginSymmetricSession |->
      { << <<"Lock", "handshake">>, <<"Unlock", "handshake">> >>,
        << <<"Lock", "handshake">>, <<"Lock", "keypairs">>,
           <<"Unlock", "keypairs">>, <<"Unlock", "handshake">> >> },
    ReceivedWithKeypair |->
      { << <<"Lock", "keypairs">>, <<"Unlock", "keypairs">> >> },
    RekeyIdentity |->
      { << <<"Lock", "staticIdentity">>, <<"Unlock", "staticIdentity">> >> } ]

\* goroutine g is in a call
Running(g) == locks.at[g].op # ""

\* the lock operation goroutine g makes next
NextLockOp(g) == locks.at[g].prog[locks.at[g].pc + 1]

\* goroutine g after its next lock operation: the call returns after the last
Advanced(g) ==
  IF locks.at[g].pc + 1 = Len(locks.at[g].prog)
    THEN IdleGoroutine
    ELSE [locks.at[g] EXCEPT !.pc = @ + 1]

\* sync.RWMutex: RLock waits while a goroutine holds the lock exclusively or
\* waits in Lock; Lock waits while a goroutine holds the lock in any way
CanRLock(l) == l.writer = "" /\ l.waiting = {}
CanLock(l) == l.writer = "" /\ l.readers = {}

GoroutineCalls(g, op) ==
  /\ ~Running(g)
  /\ \E prog \in LockPrograms[op] :
       locks' = [locks EXCEPT !.at[g] = [op |-> op, prog |-> prog, pc |-> 0]]
  /\ UNCHANGED <<handshakeVars, queue, conn, replayFilter, sendNonce, pd>>

GoroutineRLocks(g) ==
  /\ Running(g)
  /\ NextLockOp(g)[1] = "RLock"
  /\ LET n == NextLockOp(g)[2]
     IN /\ CanRLock(locks[n])
        /\ locks' = [locks EXCEPT ![n].readers = @ \cup {g}, !.at[g] = Advanced(g)]
  /\ UNCHANGED <<handshakeVars, queue, conn, replayFilter, sendNonce, pd>>

GoroutineRUnlocks(g) ==
  /\ Running(g)
  /\ NextLockOp(g)[1] = "RUnlock"
  /\ LET n == NextLockOp(g)[2]
     IN locks' = [locks EXCEPT ![n].readers = @ \ {g}, !.at[g] = Advanced(g)]
  /\ UNCHANGED <<handshakeVars, queue, conn, replayFilter, sendNonce, pd>>

\* Lock, when the goroutine begins to wait
GoroutineWaitsForLock(g) ==
  /\ Running(g)
  /\ NextLockOp(g)[1] = "Lock"
  /\ LET n == NextLockOp(g)[2]
     IN /\ g \notin locks[n].waiting
        /\ locks' = [locks EXCEPT ![n].waiting = @ \cup {g}]
  /\ UNCHANGED <<handshakeVars, queue, conn, replayFilter, sendNonce, pd>>

\* Lock, when the goroutine gets the lock
GoroutineLocks(g) ==
  /\ Running(g)
  /\ NextLockOp(g)[1] = "Lock"
  /\ LET n == NextLockOp(g)[2]
     IN /\ g \in locks[n].waiting
        /\ CanLock(locks[n])
        /\ locks' = [locks EXCEPT ![n].waiting = @ \ {g}, ![n].writer = g,
                                  !.at[g] = Advanced(g)]
  /\ UNCHANGED <<handshakeVars, queue, conn, replayFilter, sendNonce, pd>>

GoroutineUnlocks(g) ==
  /\ Running(g)
  /\ NextLockOp(g)[1] = "Unlock"
  /\ LET n == NextLockOp(g)[2]
     IN locks' = [locks EXCEPT ![n].writer = "", !.at[g] = Advanced(g)]
  /\ UNCHANGED <<handshakeVars, queue, conn, replayFilter, sendNonce, pd>>

(***************************************************************************)
(* SpecLocks: three goroutines that make any of the calls on the same      *)
(* peer, the rekey of the identity among them, again and again.            *)
(***************************************************************************)
NextLocks ==
  \/ \E g \in Goroutines : \E op \in DOMAIN LockPrograms : GoroutineCalls(g, op)
  \/ \E g \in Goroutines : GoroutineRLocks(g)
  \/ \E g \in Goroutines : GoroutineRUnlocks(g)
  \/ \E g \in Goroutines : GoroutineWaitsForLock(g)
  \/ \E g \in Goroutines : GoroutineLocks(g)
  \/ \E g \in Goroutines : GoroutineUnlocks(g)

SpecLocks == Init /\ [][NextLocks]_vars

(***************************************************************************)
(* peerDirectory.AddPeer and the lookups (part_002, 33-61).  A Go map is   *)
(* a function; its keys are the domain.                                    *)
(***************************************************************************)
PeerNames == {"", "n1"}
PublicKeys == {"k1", "k2"}
Addrs == {"a1", "a2"}
\* the address lists of a call: any addresses, repeated ones too
AddrLists == UNION {[1..n -> Addrs] : n \in 0..MaxAddrs}

\* m[k] = v
Put(m, k, v) == [x \in DOMAIN m \cup {k} |-> IF x = k THEN v ELSE m[x]]

\* a loop that takes an address that is mapped to the same public key for
\* free
RECURSIVE mapAddressesOwnAllowed(_, _, _, _)
mapAddressesOwnAllowed(m, publicKey, addrs, i) ==
  IF i > Len(addrs)
    THEN [fromPeerAddress |-> m, err |-> FALSE]
    ELSE IF addrs[i] \in DOMAIN m /\ m[addrs[i]] # publicKey
      THEN [fromPeerAddress |-> m, err |-> TRUE]
      ELSE mapAddressesOwnAllowed(Put(m, addrs[i], publicKey), publicKey, addrs, i + 1)

\* lines 38-44: the loop over addrs from the i-th on
RECURSIVE mapAddresses(_, _, _, _)
mapAddresses(m, publicKey, addrs, i) ==
  IF i > Len(addrs)
    THEN [fromPeerAddress |-> m, err |-> FALSE]
    ELSE IF addrs[i] \in DOMAIN m
      THEN [fromPeerAddress |-> m, err |-> TRUE]
      ELSE mapAddresses(Put(m, addrs[i], publicKey), publicKey, addrs, i + 1)

\* lines 49-56
LookupPeerAddressesByName(d, name) ==
  IF name \notin DOMAIN d.peerNames
    THEN [addrs |-> <<>>, ok |-> FALSE]
    ELSE IF d.peerNames[name] \notin DOMAIN d.peerAddresses
      THEN [addrs |-> <<>>, ok |-> FALSE]
      ELSE [addrs |-> d.peerAddresses[d.peerNames[name]], ok |-> TRUE]

\* lines 58-61
LookupPeerByAddress(d, addr) ==
  IF addr \in DOMAIN d.fromPeerAddress
    THEN [publicKey |-> d.fromPeerAddress[addr], ok |-> TRUE]
    ELSE [publicKey |-> "", ok |-> FALSE]

\* the three maps of the directory
Maps(d) ==
  [ peerNames |-> d.peerNames, peerAddresses |-> d.peerAddresses,
    fromPeerAddress |-> d.fromPeerAddress ]

\* a call that records the address list of a peer only if it is not empty
AddPeerSkippingEmpty(name, publicKey, addrs) ==
  LET r == mapAddresses(pd.fromPeerAddress, publicKey, addrs, 1)
  IN /\ pd' = [ peerNames |-> IF name # "" THEN Put(pd.peerNames, name, publicKey)
                                           ELSE pd.peerNames,
                peerAddresses |-> IF Len(addrs) > 0
                                    THEN Put(pd.peerAddresses, publicKey, addrs)
                                    ELSE pd.peerAddresses,
                fromPeerAddress |-> r.fromPeerAddress,
                last |-> [ name |-> name, publicKey |-> publicKey, addrs |-> addrs,
                           err |-> r.err, before |-> Maps(pd) ],
                failed |-> pd.failed \/ r.err,
                again |-> pd.again \/ publicKey \in DOMAIN pd.peerAddresses ]
     /\ UNCHANGED <<handshakeVars, queue, conn, replayFilter, sendNonce, locks>>

\* lines 33-47
AddPeer(name, publicKey, addrs) ==
  LET r == mapAddresses(pd.fromPeerAddress, publicKey, addrs, 1)
  IN /\ pd' = [ peerNames |-> IF name # "" THEN Put(pd.peerNames, name, publicKey)
                                           ELSE pd.peerNames,
                peerAddresses |-> Put(pd.peerAddresses, publicKey, addrs),
                fromPeerAddress |-> r.fromPeerAddress,
                last |-> [ name |-> name, publicKey |-> publicKey, addrs |-> addrs,
                           err |-> r.err, before |-> Maps(pd) ],
                failed |-> pd.failed \/ r.err,
                again |-> pd.again \/ publicKey \in DOMAIN pd.peerAddresses ]
     /\ UNCHANGED <<handshakeVars, queue, conn, replayFilter, sendNonce, locks>>

NextDirectory ==
  \E name \in PeerNames : \E publicKey \in PublicKeys : \E addrs \in AddrLists :
    AddPeer(name, publicKey, addrs)

SpecDirectory == Init /\ [][NextDirectory]_vars

(***************************************************************************)
(* The ref-counted queue.  wg.Add and wg.Done have the meaning the Go      *)
(* sync.WaitGroup gives them: Wait returns at once when the count is 0 and *)
(* otherwise blocks until a Done brings the count to 0, which releases the *)
(* waiter whatever happens to the count afterwards.                        *)
(***************************************************************************)
\* wg.Done()
WaitGroupDone(q) ==
  [q EXCEPT !.wg = @ - 1,
            !.closer = IF q.wg = 1 /\ q.closer = "waiting" THEN "close" ELSE @]

\* a goroutine that closes the channel without waiting for the count
QueueWaitNotWaiting ==
  /\ queue.closer = "start"
  /\ queue' = [queue EXCEPT !.closer = "close"]
  /\ UNCHANGED <<handshakeVars, conn, replayFilter, sendNonce, locks, pd>>

\* a goroutine that waits even when the count is 0 already
QueueWaitMissingZero ==
  /\ queue.closer = "start"
  /\ queue' = [queue EXCEPT !.closer = "waiting"]
  /\ UNCHANGED <<handshakeVars, conn, replayFilter, sendNonce, locks, pd>>

\* line 58: the goroutine of newOutboundQueue calls q.wg.Wait()
QueueWait ==
  /\ queue.closer = "start"
  /\ queue' = [queue EXCEPT !.closer = IF queue.wg = 0 THEN "close" ELSE "waiting"]
  /\ UNCHANGED <<handshakeVars, conn, replayFilter, sendNonce, locks, pd>>

\* line 59: close(q.c)
QueueClose ==
  /\ queue.closer = "close"
  /\ queue' = [queue EXCEPT !.closer = "done", !.closed = TRUE, !.closes = @ + 1,
                            !.panicked = @ \/ queue.closed]
  /\ UNCHANGED <<handshakeVars, conn, replayFilter, sendNonce, locks, pd>>

\* lines 44-45: the owner of the queue removes the initial reference
QueueReleaseInitial ==
  /\ queue.initial
  /\ queue' = [WaitGroupDone(queue) EXCEPT !.initial = FALSE]
  /\ UNCHANGED <<handshakeVars, conn, replayFilter, sendNonce, locks, pd>>

\* line 42: a writer calls wg.Add(1)
WriterAdd(x) ==
  /\ queue.writer[x] = "idle"
  /\ queue.sends[x] < MaxSends
  /\ queue' = [queue EXCEPT !.wg = @ + 1, !.writer[x] = "holding",
                            !.lateAdd = @ \/ queue.wg = 0]
  /\ UNCHANGED <<handshakeVars, conn, replayFilter, sendNonce, locks, pd>>

\* the writer sends on q.c: it blocks while the buffer is full, and a send
\* on a closed channel panics
WriterSend(x) ==
  /\ queue.writer[x] = "holding"
  /\ IF queue.closed
       THEN queue' = [queue EXCEPT !.writer[x] = "panicked", !.panicked = TRUE]
       ELSE /\ queue.c < QueueSize
            /\ queue' = [queue EXCEPT !.c = @ + 1, !.writer[x] = "sent",
                                      !.sends[x] = @ + 1]
  /\ UNCHANGED <<handshakeVars, conn, replayFilter, sendNonce, locks, pd>>

\* line 43: the writer calls wg.Done()
WriterDone(x) ==
  /\ queue.writer[x] = "sent"
  /\ queue' = [WaitGroupDone(queue) EXCEPT !.writer[x] = "idle"]
  /\ UNCHANGED <<handshakeVars, conn, replayFilter, sendNonce, locks, pd>>

\* the consumer ranges over q.c: it receives an element
ConsumerReceive ==
  /\ queue.consumer = "range"
  /\ queue.c > 0
  /\ queue' = [queue EXCEPT !.c = @ - 1, !.received = @ + 1]
  /\ UNCHANGED <<handshakeVars, conn, replayFilter, sendNonce, locks, pd>>

\* the range over q.c ends: the channel is closed and empty
ConsumerExit ==
  /\ queue.consumer = "range"
  /\ queue.closed
  /\ queue.c = 0
  /\ queue' = [queue EXCEPT !.consumer = "done"]
  /\ UNCHANGED <<handshakeVars, conn, replayFilter, sendNonce, locks, pd>>

NextQueue ==
  \/ QueueWait
  \/ QueueClose
  \/ QueueReleaseInitial
  \/ \E x \in QueueWriters : WriterAdd(x)
  \/ \E x \in QueueWriters : WriterSend(x)
  \/ \E x \in QueueWriters : WriterDone(x)
  \/ ConsumerReceive
  \/ ConsumerExit

SpecQueue == Init /\ [][NextQueue]_vars

\* the Go scheduler runs a goroutine that can run: the goroutine of
\* newOutboundQueue, the consumer, and a writer that has taken a reference,
\* which sends and calls wg.Done (line 43: every completed writer must)
SpecQueueLive ==
  /\ SpecQueue
  /\ WF_vars(QueueWait)
  /\ WF_vars(QueueClose)
  /\ WF_vars(ConsumerReceive)
  /\ WF_vars(ConsumerExit)
  /\ \A x \in QueueWriters : WF_vars(WriterSend(x)) /\ WF_vars(WriterDone(x))

(***************************************************************************)
(* The UDP batching of package conn.  A buffer is its length and its       *)
(* capacity; a message that coalesceMessages leaves is the address, the    *)
(* datagrams (by their place in bufs) in its first buffer, the length of   *)
(* that buffer and the GSO size in its control data (0: none).             *)
(***************************************************************************)
TheAddr == "127.0.0.1:1"

\* a loop that goes on appending after a datagram shorter than the first
RECURSIVE coalesceFromPastShort(_, _, _, _)
coalesceFromPastShort(addr, bufs, i, acc) ==
  IF i > Len(bufs) THEN acc
  ELSE
    LET buf == bufs[i]
        base == Len(acc.msgs)
        fits == /\ i > 1
                /\ buf.len <= acc.gsoSize
                /\ buf.len <= acc.msgs[base].cap - acc.msgs[base].len
    IN IF fits
         THEN coalesceFromPastShort(addr, bufs, i + 1,
                [ msgs |-> [acc.msgs EXCEPT ![base].len = @ + buf.len,
                                            ![base].dgrams = Append(@, i),
                                            ![base].gso = acc.gsoSize],
                  gsoSize |-> acc.gsoSize,
                  endBatch |-> buf.len < acc.gsoSize ])
         ELSE coalesceFromPastShort(addr, bufs, i + 1,
                [ msgs |-> Append(acc.msgs,
                             [ Addr |-> addr, dgrams |-> <<i>>, len |-> buf.len,
                               cap |-> buf.cap, gso |-> 0 ]),
                  gsoSize |-> buf.len,
                  endBatch |-> FALSE ])

\* the loop of coalesceMessages over bufs[i..]: acc holds the messages so
\* far, the last of which is the one being coalesced into
RECURSIVE coalesceFrom(_, _, _, _)
coalesceFrom(addr, bufs, i, acc) ==
  IF i > Len(bufs) THEN acc
  ELSE
    LET buf == bufs[i]
        base == Len(acc.msgs)
        fits == /\ i > 1
                /\ buf.len <= acc.gsoSize
                /\ buf.len <= acc.msgs[base].cap - acc.msgs[base].len
                /\ ~acc.endBatch
    IN IF fits
         THEN coalesceFrom(addr, bufs, i + 1,
                [ msgs |-> [acc.msgs EXCEPT ![base].len = @ + buf.len,
                                            ![base].dgrams = Append(@, i),
                                            ![base].gso = acc.gsoSize],
                  gsoSize |-> acc.gsoSize,
                  endBatch |-> buf.len < acc.gsoSize ])
         ELSE coalesceFrom(addr, bufs, i + 1,
                [ msgs |-> Append(acc.msgs,
                             [ Addr |-> addr, dgrams |-> <<i>>, len |-> buf.len,
                               cap |-> buf.cap, gso |-> 0 ]),
                  gsoSize |-> buf.len,
                  endBatch |-> FALSE ])

\* coalesceMessages(addr, ep, bufs, msgs, setGSO): the messages and their number
coalesceMessages(addr, bufs) ==
  LET acc == coalesceFrom(addr, bufs, 1, [msgs |-> <<>>, gsoSize |-> 0, endBatch |-> FALSE])
  IN [n |-> Len(acc.msgs), msgs |-> acc.msgs]

(***************************************************************************)
(* splitCoalescedMessages(msgs, firstMsgAt, getGSO): a received message is *)
(* its length N and the GSO size of its control data.  Indices are those   *)
(* of the Go slice, from 0.                                                *)
(***************************************************************************)
Min(a, b) == IF a < b THEN a ELSE b

\* the segments of one message are written to the slots from n on: j
\* segments are still to write, the next one starts at byte start
RECURSIVE splitOne(_, _, _, _, _)
splitOne(acc, N, gsoSize, start, j) ==
  IF j = 0 \/ acc.err THEN acc
  ELSE IF acc.n >= Len(acc.out) THEN [acc EXCEPT !.err = TRUE]
  ELSE LET end == IF gsoSize > 0 THEN Min(start + gsoSize, N) ELSE N
       IN splitOne([acc EXCEPT !.out[acc.n + 1] = end - start, !.n = @ + 1],
                   N, gsoSize, end, j - 1)

\* the loop over msgs[i..]
RECURSIVE splitFrom(_, _, _)
splitFrom(msgs, i, acc) ==
  IF i >= Len(msgs) \/ acc.err THEN acc
  ELSE LET msg == msgs[i + 1]
           numToSplit == IF msg.N = 0 THEN 0
                         ELSE IF msg.gso > 0 THEN (msg.N + msg.gso - 1) \div msg.gso
                         ELSE 1
       IN splitFrom(msgs, i + 1, splitOne(acc, msg.N, msg.gso, 0, numToSplit))

\* a split that leaves the lengths of the slots it does not write as they were
splitCoalescedMessagesKeepingLengths(msgs, firstMsgAt) ==
  splitFrom(msgs, firstMsgAt,
            [n |-> 0, err |-> FALSE, out |-> [k \in 1..Len(msgs) |-> msgs[k].N]])

splitCoalescedMessages(msgs, firstMsgAt) ==
  splitFrom(msgs, firstMsgAt,
            [n |-> 0, err |-> FALSE, out |-> [k \in 1..Len(msgs) |-> 0]])

\* the buffers and the received messages the calls are made with
Buffers == {b \in [len : 1..MaxLen, cap : 1..MaxCap] : b.len <= b.cap}
BufferLists == UNION {[1..k -> Buffers] : k \in 1..MaxBufs}
Received == [N : 1..MaxN, gso : 0..MaxGSO]
EmptySlot == [N |-> 0, gso |-> 0]

\* a batch of MaxMsgs slots that was read from slot firstMsgAt on: k
\* messages were received, the other slots are empty
Batches(firstMsgAt) ==
  UNION {{m \in [1..MaxMsgs -> Received \cup {EmptySlot}] :
            \A i \in 1..MaxMsgs :
              m[i] # EmptySlot <=> (i > firstMsgAt /\ i <= firstMsgAt + k)}
         : k \in 0..(MaxMsgs - firstMsgAt)}

InitConn ==
  /\ InitHandshake
  /\ locks = NoLocks
  /\ pd = newPeerDirectory
  /\ queue = NewQueue
  /\ replayFilter = NewFilter
  /\ sendNonce = NewCounter
  /\ \/ \E bufs \in BufferLists :
          conn = [NoCall EXCEPT !.call = "coalesceMessages", !.bufs = bufs]
     \/ \E f \in 0..(MaxMsgs - 1) : \E msgs \in Batches(f) :
          conn = [NoCall EXCEPT !.call = "splitCoalescedMessages", !.msgs = msgs,
                                !.firstMsgAt = f]

CoalesceMessages ==
  /\ conn.op = "none"
  /\ conn.call = "coalesceMessages"
  /\ LET r == coalesceMessages(TheAddr, conn.bufs)
     IN conn' = [conn EXCEPT !.op = "coalesceMessages", !.n = r.n, !.out = r.msgs]
  /\ UNCHANGED <<handshakeVars, queue, replayFilter, sendNonce, locks, pd>>

SplitCoalescedMessages ==
  /\ conn.op = "none"
  /\ conn.call = "splitCoalescedMessages"
  /\ LET r == splitCoalescedMessages(conn.msgs, conn.firstMsgAt)
     IN conn' = [conn EXCEPT !.op = "splitCoalescedMessages", !.n = r.n,
                             !.err = r.err, !.out = r.out]
  /\ UNCHANGED <<handshakeVars, queue, replayFilter, sendNonce, locks, pd>>

NextConn ==
  \/ CoalesceMessages
  \/ SplitCoalescedMessages

SpecConn == InitConn /\ [][NextConn]_vars

(***************************************************************************)
(* The send path: an encryption worker takes the current keypair if it is  *)
(* still usable (its counter below RejectAfterMessages), allocates a       *)
(* counter by fetch-and-add, checks it against RejectAfterMessages after   *)
(* the fetch, and sends the packet or drops it.                            *)
(***************************************************************************)
\* the worker looks at the keypair: an exhausted one is not used
EncryptBegins(e) ==
  /\ sendNonce.worker[e].pc = "idle"
  /\ IF sendNonce.counter >= RejectAfterMessages
       THEN sendNonce' = [sendNonce EXCEPT !.exhausted = TRUE]
       ELSE sendNonce' = [sendNonce EXCEPT !.worker[e].pc = "fetch"]
  /\ sendNonce' # sendNonce
  /\ UNCHANGED <<handshakeVars, queue, conn, replayFilter, locks, pd>>

\* the atomic fetch-and-add on the counter
FetchAndAdd(e) ==
  /\ sendNonce.worker[e].pc = "fetch"
  /\ sendNonce' = [sendNonce EXCEPT
                     !.counter = (@ + 1) % 2^CounterBits,
                     !.worker[e] = [pc |-> "check", nonce |-> sendNonce.counter],
                     !.allocated = Append(@, sendNonce.counter)]
  /\ UNCHANGED <<handshakeVars, queue, conn, replayFilter, locks, pd>>

\* a worker that sends whatever counter it fetched
SendsUnchecked(e) ==
  LET nonce == sendNonce.worker[e].nonce
  IN /\ sendNonce.worker[e].pc = "check"
     /\ sendNonce' = [sendNonce EXCEPT
                        !.worker[e].pc = "idle",
                        !.sent = @ \cup {nonce},
                        !.reused = @ \/ nonce \in sendNonce.sent]
     /\ UNCHANGED <<handshakeVars, queue, conn, replayFilter, locks, pd>>

\* the check after the fetch: the packet is sent, or dropped
SendsOrDrops(e) ==
  LET nonce == sendNonce.worker[e].nonce
  IN /\ sendNonce.worker[e].pc = "check"
     /\ IF nonce >= RejectAfterMessages
          THEN sendNonce' = [sendNonce EXCEPT
                               !.worker[e].pc = "idle",
                               !.dropped = @ \cup {nonce},
                               !.exhausted = TRUE]
          ELSE sendNonce' = [sendNonce EXCEPT
                               !.worker[e].pc = "idle",
                               !.sent = @ \cup {nonce},
                               !.reused = @ \/ nonce \in sendNonce.sent]
     /\ UNCHANGED <<handshakeVars, queue, conn, replayFilter, locks, pd>>

\* the counter of a new keypair is 0; a keypair that has sent
\* RejectAfterMessages - 2 packets has that counter
InitSend ==
  /\ InitHandshake
  /\ locks = NoLocks
  /\ pd = newPeerDirectory
  /\ queue = NewQueue
  /\ conn = NoCall
  /\ replayFilter = NewFilter
  /\ sendNonce \in {CounterAt(0), CounterAt(RejectAfterMessages - 2)}

NextSend ==
  \/ \E e \in EncryptionWorkers : EncryptBegins(e)
  \/ \E e \in EncryptionWorkers : FetchAndAdd(e)
  \/ \E e \in EncryptionWorkers : SendsOrDrops(e)

SpecSend == InitSend /\ [][NextSend]_vars

(***************************************************************************)
(* The replay filter: a bitmap of WindowSize bits, bit c % WindowSize for  *)
(* counter c.  Check(c) accepts c when it is above head - WindowSize and   *)
(* its bit is unset or c is above head; on accept the bits of the counters *)
(* the window moves over are cleared (the shift), head moves to c and the  *)
(* bit of c is set.                                                        *)
(***************************************************************************)
WindowSize == 1024

\* the positions the window moves over when head moves to c
Shifted(head, c) ==
  IF c - head >= WindowSize THEN 0..(WindowSize - 1)
  ELSE {k % WindowSize : k \in (head + 1)..c}

\* a check whose shift clears the whole bitmap
CheckClearingAll(f, c) ==
  LET inWindow == c > f.head - WindowSize
      ok == inWindow /\ (c % WindowSize \notin f.bits \/ c > f.head)
  IN [ ok |-> ok,
       head |-> IF ok /\ c > f.head THEN c ELSE f.head,
       bits |-> IF ~ok THEN f.bits
                ELSE IF c > f.head THEN {c % WindowSize}
                ELSE f.bits \cup {c % WindowSize} ]

\* Check(c)
Check(f, c) ==
  LET inWindow == c > f.head - WindowSize
      ok == inWindow /\ (c % WindowSize \notin f.bits \/ c > f.head)
  IN [ ok |-> ok,
       head |-> IF ok /\ c > f.head THEN c ELSE f.head,
       bits |-> IF ~ok THEN f.bits
                ELSE IF c > f.head
                  THEN (f.bits \ Shifted(f.head, c)) \cup {c % WindowSize}
                ELSE f.bits \cup {c % WindowSize} ]

\* the counters of the datagrams that arrive: the first ones, and those
\* around one and two windows
OfferedCounters ==
  {0, 1, 2, WindowSize - 1, WindowSize, WindowSize + 1, WindowSize + 2,
   2 * WindowSize, 2 * WindowSize + 1}

\* a datagram with counter c arrives and the filter is asked
FilterCheck(c) ==
  /\ replayFilter.offers < MaxOffers
  /\ LET r == Check(replayFilter, c)
     IN replayFilter' =
          [replayFilter EXCEPT
             !.head = r.head, !.bits = r.bits, !.offers = @ + 1,
             !.accepted = IF r.ok THEN Append(@, c) ELSE @,
             !.last = [counter |-> c, head |-> replayFilter.head, ret |-> r.ok,
                       op |-> "Check"]]
  /\ UNCHANGED <<handshakeVars, queue, conn, sendNonce, locks, pd>>

\* noise-protocol.go line 602: a new keypair is installed
FilterReset ==
  /\ replayFilter.resets < MaxResets
  /\ replayFilter.offers > 0
  /\ replayFilter' = [NewFilter EXCEPT !.resets = replayFilter.resets + 1,
                                       !.offers = replayFilter.offers]
  /\ UNCHANGED <<handshakeVars, queue, conn, sendNonce, locks, pd>>

NextFilter ==
  \/ \E c \in OfferedCounters : FilterCheck(c)
  \/ FilterReset

SpecFilter == Init /\ [][NextFilter]_vars

(***************************************************************************)
(* The handshake that two keypairs come of.                                *)
(***************************************************************************)
Ids(net) == {m.Ephemeral : m \in net}
MessageOf(net, id) == CHOOSE m \in net : m.Ephemeral = id

\* keypair i of transport t and keypair j of its peer come of one complete
\* handshake, of which t was the initiator: the peer consumed the
\* initiation t created, and t consumed the response the peer created
Completed(t, i, j) ==
  LET a == kpMsgs[t][i]
      b == kpMsgs[Other(t)][j]
  IN /\ a.sent \in Ids(netInit)
     /\ b.rcvd = a.sent
     /\ b.sent \in Ids(netResp)
     /\ a.rcvd = b.sent

Handshakes ==
  {x \in UNION {{t} \X (1..Len(heap[t])) \X (1..Len(heap[Other(t)])) : t \in Transports} :
     Completed(x[1], x[2], x[3])}

Payloads == {<<"payload", 100>>, <<"payload", 200>>, <<"payload", 300>>}
Nonces == 0..2

\* C1: after a complete handshake the initiator's keypair is marked
\* isInitiator and the responder's is not, the send key of each is the
\* receive key of the other, and what the initiator seals the responder
\* opens to the same plaintext.
KeysAgree ==
  \A x \in Handshakes :
    LET a == heap[x[1]][x[2]]
        b == heap[Other(x[1])][x[3]]
    IN a.deleted = 0 /\ b.deleted = 0 =>
         /\ a.isInitiator
         /\ ~b.isInitiator
         /\ ~isZero(a.send) /\ ~isZero(a.receive)
         /\ a.send = b.receive
         /\ a.receive = b.send
         /\ a.send # a.receive
         /\ \A n \in Nonces : \A x2 \in Payloads :
              /\ OpenOk(b.receive, n, Seal(a.send, n, x2, Empty), Empty)
              /\ Opened(Seal(a.send, n, x2, Empty)) = x2
              /\ ~OpenOk(b.send, n, Seal(a.send, n, x2, Empty), Empty)

KeysAgreeWitness ==
  \E x \in Handshakes :
    /\ heap[x[1]][x[2]].deleted = 0
    /\ heap[Other(x[1])][x[3]].deleted = 0
    /\ lastOp = Returned("BeginSymmetricSession", "", "", "ok", "", 0, 0)

\* C2: after a complete handshake the remoteIndex of each keypair is the
\* localIndex of the other; the initiator's localIndex is the Sender of the
\* initiation, the responder's is the Sender of the response, and the
\* Receiver of the response is the Sender of the initiation.
IndicesCrossBound ==
  \A x \in Handshakes :
    LET a == heap[x[1]][x[2]]
        b == heap[Other(x[1])][x[3]]
        init == MessageOf(netInit, kpMsgs[x[1]][x[2]].sent)
        resp == MessageOf(netResp, kpMsgs[x[1]][x[2]].rcvd)
    IN /\ a.remoteIndex = b.localIndex
       /\ b.remoteIndex = a.localIndex
       /\ a.localIndex = init.Sender
       /\ b.localIndex = resp.Sender
       /\ resp.Receiver = init.Sender

IndicesCrossBoundWitness ==
  \E x \in Handshakes :
    heap[x[1]][x[2]].localIndex # heap[Other(x[1])][x[3]].localIndex

\* C3: a call of ConsumeMessageInitiation that returns a peer commits a
\* timestamp strictly greater than the lastTimestamp the handshake holds
\* immediately before the commit.
CommittedTimestampIsNewer ==
  [][\A w \in Workers :
       wk[w].pc = "ConsumeMessageInitiation" /\ wk'[w].pc = "idle" =>
         After(wk[w].timestamp, hs[wk[w].t][wk[w].p].lastTimestamp)]_vars

\* C4: lastTimestamp never decreases, whatever the operation, and an
\* initiation sent no later than the one a transport consumed last from the
\* peer is rejected by ConsumeMessageInitiation.
StaleInitiationsRejected ==
  \A t \in Transports : \A m \in netInit : \A m0 \in netInit :
    /\ m0.Ephemeral = hsMsgs[t][Other(t)].rcvd
    /\ Opened(m.Static) = StaticPublicKey(Other(t))
    /\ ~After(Opened(m.Timestamp), Opened(m0.Timestamp))
    => ConsumeInitiationCheck(t, m).peer = "nil"

Elapsed(t, msg) ==
  Sub(now, hs[t][LookupPeer(t, Opened(msg.Static))].lastInitiationConsumption)
OtherwiseValid(t, msg) == ConsumeInitiationCheck(t, msg).why \in {"", "flood"}

\* C5: an otherwise valid initiation is rejected as flood exactly when the
\* time since lastInitiationConsumption is strictly less than
\* HandshakeInitationRate.
FloodExactlyBelowRate ==
  \A t \in Transports : \A msg \in netInit :
    OtherwiseValid(t, msg) =>
      (ConsumeInitiationCheck(t, msg).why = "flood"
         <=> Elapsed(t, msg) < HandshakeInitationRate)

\* C6: an initiation that is dropped as flood is dropped before any AEAD
\* work is done for it.
FloodBeforeAead ==
  \A t \in Transports : \A msg \in InitiationInputs(t) :
    ConsumeInitiationCheck(t, msg).why = "flood" =>
      ConsumeInitiationCheck(t, msg).aead = 0

\* C6, amended: an initiation is dropped as flood only after both AEAD opens
\* have succeeded: that of the static key, which names the peer whose rate
\* is limited, and that of the timestamp.
FloodAfterBothAeads ==
  \A t \in Transports : \A msg \in InitiationInputs(t) :
    ConsumeInitiationCheck(t, msg).why = "flood" =>
      LET c1 == mixKey(InitialChainKey, msg.Ephemeral)
          ss == sharedSecret(StaticPrivateKey(t), msg.Ephemeral).ss
          h2 == mixHash(mixHash(InitialHash, StaticPublicKey(t)), msg.Ephemeral)
          pss == hs[t][LookupPeer(t, Opened(msg.Static))].precomputedStaticStatic
      IN /\ ConsumeInitiationCheck(t, msg).aead = 2
         /\ OpenOk(KDF(2, c1, ss), ZeroNonce, msg.Static, h2)
         /\ OpenOk(KDF(2, KDF(1, c1, ss), pss), ZeroNonce, msg.Timestamp,
                   mixHash(h2, msg.Static))

FloodWitness ==
  /\ lastOp = Returned("ConsumeMessageInitiation", "", "", "nil", "", 0, 0)
  /\ \E t \in Transports : \E msg \in netInit :
       /\ ConsumeInitiationCheck(t, msg).why = "flood"
       /\ Elapsed(t, msg) > 0

\* C7: a call of ConsumeMessageInitiation that returns nil leaves every
\* handshake and the index table as they were; a call that returns a peer
\* writes the handshake of that peer only, and sets its state to
\* InitiationConsumed.
ConsumeInitiationFrame ==
  [][lastOp'.op = "ConsumeMessageInitiation" =>
       IF lastOp'.ret = "peer"
         THEN /\ UNCHANGED indexTable
              /\ \E t \in Transports : \E p \in PeersOf(t) :
                   /\ hs'[t][p].state = handshakeInitiationConsumed
                   /\ hs' = [hs EXCEPT ![t][p] = hs'[t][p]]
                   /\ hs'[t][p] = [hs[t][p] EXCEPT
                                     !.state = hs'[t][p].state,
                                     !.hash = hs'[t][p].hash,
                                     !.chainKey = hs'[t][p].chainKey,
                                     !.remoteIndex = hs'[t][p].remoteIndex,
                                     !.remoteEphemeral = hs'[t][p].remoteEphemeral,
                                     !.lastTimestamp = hs'[t][p].lastTimestamp,
                                     !.lastInitiationConsumption =
                                        hs'[t][p].lastInitiationConsumption]
         ELSE UNCHANGED <<hs, indexTable>>]_vars

ConsumeInitiationFrameWitness ==
  /\ lastOp = Returned("ConsumeMessageInitiation", "", "", "nil", "", 0, 0)
  /\ \E t \in Transports :
       /\ hs[t][Other(t)].state = handshakeInitiationConsumed
       /\ \E msg \in netInit : ConsumeInitiationCheck(t, msg).why = "replay"
       /\ \E msg \in netInit : ConsumeInitiationCheck(t, msg).why = "flood"
       /\ \E msg \in InitiationInputs(t) : ConsumeInitiationCheck(t, msg).why = "timestamp"

\* C8: ConsumeMessageResponse commits state ResponseConsumed only onto a
\* handshake whose state at the moment of the commit is InitiationCreated.
ResponseConsumedFromInitiationCreated ==
  [][\A w \in Workers :
       wk[w].pc = "ConsumeMessageResponse" /\ wk'[w].pc = "idle" =>
         hs[wk[w].t][wk[w].p].state = handshakeInitiationCreated]_vars

\* ConsumeMessageResponse(msg), called now, returns a peer
Accepts(t, msg) ==
  /\ msg.Type = MessageResponseType
  /\ Lookup(indexTable[t], msg.Receiver).kind = "handshake"
  /\ ConsumeResponseCheck(t, hs[t][Lookup(indexTable[t], msg.Receiver).peer], msg).ok

\* C9: a call of ConsumeMessageResponse that returns nil leaves the
\* handshakes, the keypair slots and the index table as they were, so that
\* every response that would have been accepted before the call is
\* accepted after it.
ConsumeResponseFrame ==
  [][lastOp'.op = "ConsumeMessageResponse" /\ lastOp'.ret = "nil" =>
       /\ UNCHANGED <<hs, keypairs, indexTable, heap>>
       /\ \A t \in Transports : \A msg \in netResp :
            Accepts(t, msg) => Accepts(t, msg)']_vars

ConsumeResponseFrameWitness ==
  /\ lastOp = Returned("ConsumeMessageResponse", "", "", "nil", "", 0, 0)
  /\ \E t \in Transports :
       /\ \E msg \in netResp : Accepts(t, msg)
       /\ \E msg \in ResponseInputs(t) :
            /\ msg.Type = MessageResponseType
            /\ Lookup(indexTable[t], msg.Receiver).kind = "handshake"
            /\ ~Accepts(t, msg)

\* C10: CreateMessageResponse succeeds only in state InitiationConsumed, and
\* then it deletes the binding of the old localIndex, binds a free index to
\* the handshake of the peer and sets the state to ResponseCreated; when it
\* returns an error the handshakes and the index table are as they were.
CreateResponseEffect ==
  [][lastOp'.op = "CreateMessageResponse" =>
       IF lastOp'.ret = "ok"
         THEN \E t \in Transports :
                LET p == Other(t)
                    old == hs[t][p].localIndex
                    new == hs'[t][p].localIndex
                IN /\ hs[t][p].state = handshakeInitiationConsumed
                   /\ hs'[t][p].state = handshakeResponseCreated
                   /\ hs' = [hs EXCEPT ![t][p] = hs'[t][p]]
                   /\ new \in FreeIndices(Delete(indexTable[t], old))
                   /\ indexTable' = [indexTable EXCEPT
                        ![t] = [Delete(indexTable[t], old) EXCEPT ![new] = HandshakeEntry(p)]]
         ELSE /\ UNCHANGED <<hs, indexTable>>
              /\ \E t \in Transports :
                   hs[t][Other(t)].state # handshakeInitiationConsumed]_vars

CreateResponseEffectWitness ==
  /\ lastOp = Returned("CreateMessageResponse", "", "", "ok", "", 0, 0)
  /\ \E t \in Transports : \E m \in netInit :
       /\ hs[t][Other(t)].state = handshakeResponseCreated
       /\ heap[t] = <<>>
       /\ Opened(m.Static) = StaticPublicKey(t)
       /\ m.Sender # hs[t][Other(t)].localIndex
       /\ Lookup(indexTable[t], m.Sender) = NoEntry

\* C11: BeginSymmetricSession succeeds only in state ResponseConsumed or
\* ResponseCreated, and leaves the handshake in a state in which a second
\* call fails; in state Zeroed, InitiationCreated or InitiationConsumed it
\* returns an error, and the handshakes, the index table, the slots and the
\* keypairs are as they were.
BeginSessionOnlyAfterResponse ==
  [][lastOp'.op = "BeginSymmetricSession" =>
       IF lastOp'.ret = "ok"
         THEN \E t \in Transports :
                /\ Len(heap'[t]) = Len(heap[t]) + 1
                /\ hs[t][Other(t)].state \in
                     {handshakeResponseConsumed, handshakeResponseCreated}
                /\ hs'[t][Other(t)].state \in
                     {handshakeZeroed, handshakeInitiationCreated,
                      handshakeInitiationConsumed}
         ELSE /\ UNCHANGED <<hs, indexTable, keypairs, heap>>
              /\ \E t \in Transports :
                   hs[t][Other(t)].state \in
                     {handshakeZeroed, handshakeInitiationCreated,
                      handshakeInitiationConsumed}]_vars

\* a second call, after a call that created a keypair, has failed
BeginSessionOnlyAfterResponseWitness ==
  /\ lastOp = Returned("BeginSymmetricSession", "", "", "err", "", 0, 0)
  /\ \E t \in Transports :
       /\ hs[t][Other(t)].state = handshakeZeroed
       /\ keypairs[t][Other(t)] # NoSlots
       /\ hs[Other(t)][t].state = handshakeResponseConsumed

(***************************************************************************)
(* The calls of the session, as steps.                                     *)
(***************************************************************************)
\* the step is a call of BeginSymmetricSession of the peer of transport t
\* that returns nil: it allocates the keypair Len(heap'[t])
BeganSession(t) ==
  /\ lastOp'.op = "BeginSymmetricSession"
  /\ lastOp'.ret = "ok"
  /\ Len(heap'[t]) = Len(heap[t]) + 1

\* C12: after a successful BeginSymmetricSession the handshake is in state
\* Zeroed, its hash, chain key and local ephemeral are all-zero and its
\* localIndex is 0; the index that was its localIndex is bound to the new
\* keypair, whose localIndex is that index.
SessionTakesOverIndex ==
  [][\A t \in Transports : BeganSession(t) =>
       LET p == Other(t)
           old == hs[t][p].localIndex
           new == Len(heap'[t])
       IN /\ hs'[t][p].state = handshakeZeroed
          /\ isZero(hs'[t][p].hash)
          /\ isZero(hs'[t][p].chainKey)
          /\ isZero(hs'[t][p].localEphemeral)
          /\ hs'[t][p].localIndex = 0
          /\ heap'[t][new].localIndex = old
          /\ Lookup(indexTable'[t], old) = KeypairEntry(p, new)]_vars

\* localIndex of the handshake of peer p is registered in the index table
\* of transport t and maps back to the handshake
Registered(t, p) == Lookup(indexTable[t], hs[t][p].localIndex) = HandshakeEntry(p)

CreatedInitiation(t) ==
  /\ lastOp'.op = "CreateMessageInitiation"
  /\ lastOp'.ret = "ok"
  /\ hs'[t] # hs[t]

\* what a successful CreateMessageInitiation does to the index table and to
\* the handshake, whatever the state of the handshake was
CreateInitiationEffect(t) ==
  LET p == Other(t)
      old == hs[t][p].localIndex
      new == hs'[t][p].localIndex
  IN /\ new \in FreeIndices(Delete(indexTable[t], old))
     /\ indexTable' = [indexTable EXCEPT
          ![t] = [Delete(indexTable[t], old) EXCEPT ![new] = HandshakeEntry(p)]]
     /\ \E m \in netInit' :
          /\ netInit' = netInit \cup {m}
          /\ m \notin netInit
          /\ m.Type = MessageInitiationType
          /\ m.Sender = new
     /\ hs'[t][p].state = handshakeInitiationCreated

\* C14: every successful CreateMessageInitiation removes the binding of the
\* prior localIndex, binds a free index to the handshake, returns a message
\* whose Sender is the new localIndex and leaves state InitiationCreated;
\* afterwards an index that was bound to the handshake before the call does
\* not resolve to this handshake.
CreateInitiationUnroutesPriorIndex ==
  [][\A t \in Transports : CreatedInitiation(t) =>
       /\ CreateInitiationEffect(t)
       /\ Registered(t, Other(t)) =>
            Lookup(indexTable'[t], hs[t][Other(t)].localIndex) # HandshakeEntry(Other(t))]_vars

\* C14, amended: as C14, but the prior index is bound to nothing afterwards
\* only when the index drawn is another one; NewIndexForHandshake can draw
\* the index that was just freed, and then the prior index is the new one.
CreateInitiationRebinds ==
  [][\A t \in Transports : CreatedInitiation(t) =>
       /\ CreateInitiationEffect(t)
       /\ IF hs'[t][Other(t)].localIndex # hs[t][Other(t)].localIndex
            THEN Lookup(indexTable'[t], hs[t][Other(t)].localIndex) = NoEntry
            ELSE Lookup(indexTable'[t], hs[t][Other(t)].localIndex)
                   = HandshakeEntry(Other(t))]_vars

\* a second initiation was created while the index of the first was bound
\* to the handshake, and the index of the first is bound to nothing now
CreateInitiationRebindsWitness ==
  /\ lastOp = Returned("CreateMessageInitiation", "", "", "ok", "", 0, 0)
  /\ \E t \in Transports : \E m1, m2 \in netInit :
       /\ Opened(m1.Static) = StaticPublicKey(t)
       /\ Opened(m2.Static) = StaticPublicKey(t)
       /\ m1.Sender # m2.Sender
       /\ m1.Sender # 0
       /\ hs[t][Other(t)].state = handshakeInitiationCreated
       /\ hs[t][Other(t)].localIndex = m2.Sender
       /\ heap[t] = <<>>
       /\ Lookup(indexTable[t], m1.Sender) = NoEntry

\* the static key of the initiation msg opens at transport t (lines 281-304)
StaticOpens(t, msg) ==
  LET c1 == mixKey(InitialChainKey, msg.Ephemeral)
      dh == sharedSecret(StaticPrivateKey(t), msg.Ephemeral)
      h2 == mixHash(mixHash(InitialHash, StaticPublicKey(t)), msg.Ephemeral)
  IN /\ msg.Type = MessageInitiationType
     /\ ~dh.err
     /\ OpenOk(KDF(2, c1, dh.ss), ZeroNonce, msg.Static, h2)

\* C15: CreateMessageInitiation for a peer whose precomputed static-static
\* secret is all-zero returns an error and no message, and leaves the state
\* and the localIndex of every handshake and the index table as they were;
\* it returns a message only for a peer whose secret is not all-zero.
\* ConsumeMessageInitiation returns nil for every initiation whose static
\* key opens to the key of a peer whose secret is all-zero: a call that gets
\* past its checks is for the peer the static key names, and the secret of
\* that peer is not all-zero.
ZeroStaticStaticRejected ==
  [][/\ lastOp'.op = "CreateMessageInitiation" =>
          \E t \in Transports : \E p \in PeersOf(t) :
            /\ hs' = [hs EXCEPT ![t][p] = hs'[t][p]]
            /\ hs'[t][p] # hs[t][p]
            /\ IF isZero(hs[t][p].precomputedStaticStatic)
                 THEN /\ lastOp'.ret = "err"
                      /\ netInit' = netInit
                      /\ indexTable' = indexTable
                      /\ hs'[t][p].state = hs[t][p].state
                      /\ hs'[t][p].localIndex = hs[t][p].localIndex
                 ELSE lastOp'.ret = "ok"
     /\ \A w \in Workers :
          wk'[w].pc = "ConsumeMessageInitiation" =>
            /\ StaticOpens(wk'[w].t, wk'[w].msg)
            /\ LookupPeer(wk'[w].t, Opened(wk'[w].msg.Static)) = wk'[w].p
            /\ ~isZero(hs'[wk'[w].t][wk'[w].p].precomputedStaticStatic)]_vars

\* a call for the peer "Z" has failed, after the handshake of the other
\* peer was given an index, and an initiation in the name of "Z" is at hand
ZeroStaticStaticWitness ==
  /\ lastOp = Returned("CreateMessageInitiation", "", "", "err", "", 0, 0)
  /\ \E t \in Transports :
       /\ isZero(hs[t]["Z"].precomputedStaticStatic)
       /\ ~isZero(hs[t]["Z"].localEphemeral)
       /\ hs[t]["Z"].state = handshakeZeroed
       /\ Registered(t, Other(t))
       /\ \E msg \in InitiationInputs(t) :
            ConsumeInitiationCheck(t, msg).why = "zero static-static"

(***************************************************************************)
(* The rotation of the keypairs of a peer.                                 *)
(***************************************************************************)
\* keypair k of the peer p of transport t has been deleted: its keys are
\* zeroed, its index is revoked and no slot references it
Deleted(t, p, k) ==
  /\ heap[t][k].deleted > 0
  /\ isZero(heap[t][k].send)
  /\ isZero(heap[t][k].receive)
  /\ Lookup(indexTable[t], heap[t][k].localIndex) = NoEntry
  /\ k \notin {keypairs[t][p].previous, keypairs[t][p].current, keypairs[t][p].next}

\* keypair k has not been deleted and its index resolves to it
Alive(t, p, k) ==
  /\ heap[t][k].deleted = 0
  /\ ~isZero(heap[t][k].send)
  /\ ~isZero(heap[t][k].receive)
  /\ Lookup(indexTable[t], heap[t][k].localIndex) = KeypairEntry(p, k)

\* the step is a successful BeginSymmetricSession of transport t as initiator
BeganSessionAsInitiator(t) ==
  BeganSession(t) /\ hs[t][Other(t)].state = handshakeResponseConsumed

\* the step is a successful BeginSymmetricSession of transport t as responder
BeganSessionAsResponder(t) ==
  BeganSession(t) /\ hs[t][Other(t)].state = handshakeResponseCreated

\* C16: when BeginSymmetricSession succeeds as initiator while next holds a
\* keypair, afterwards previous is the keypair that was in next, next is
\* empty, current is the new keypair, and the keypair that was in current
\* has been deleted.
InitiatorRotatesNext ==
  [][\A t \in Transports :
       BeganSessionAsInitiator(t) /\ keypairs[t][Other(t)].next # 0 =>
         LET p == Other(t)
             slots == keypairs[t][p]
         IN /\ keypairs'[t][p].previous = slots.next
            /\ keypairs'[t][p].next = 0
            /\ keypairs'[t][p].current = Len(heap'[t])
            /\ \A k \in 1..Len(heap[t]) : k = slots.current => Deleted(t, p, k)']_vars

\* an initiator has finished a handshake while it held a current keypair
\* and a next keypair
InitiatorRotatesNextWitness ==
  /\ lastOp = Returned("BeginSymmetricSession", "", "", "ok", "", 0, 0)
  /\ \E t \in Transports :
       LET slots == keypairs[t][Other(t)]
       IN /\ slots.current # 0
          /\ slots.current = Len(heap[t])
          /\ heap[t][slots.current].isInitiator
          /\ slots.previous # 0
          /\ ~heap[t][slots.previous].isInitiator
          /\ slots.next = 0
          /\ \E k \in 1..Len(heap[t]) : Deleted(t, Other(t), k)

\* C17: after every successful BeginSymmetricSession as initiator current is
\* the new keypair, and the keypair that was in previous has been deleted
\* and is in no slot.
InitiatorInstallsCurrent ==
  [][\A t \in Transports :
       BeganSessionAsInitiator(t) =>
         LET p == Other(t)
             slots == keypairs[t][p]
         IN /\ keypairs'[t][p].current = Len(heap'[t])
            /\ \A k \in 1..Len(heap[t]) : k = slots.previous => Deleted(t, p, k)']_vars

\* an initiator has finished a handshake while it held a previous keypair
\* and a current keypair
InitiatorInstallsCurrentWitness ==
  /\ lastOp = Returned("BeginSymmetricSession", "", "", "ok", "", 0, 0)
  /\ \E t \in Transports :
       LET slots == keypairs[t][Other(t)]
       IN /\ Len(heap[t]) = 3
          /\ slots = [previous |-> 2, current |-> 3, next |-> 0]
          /\ heap[t][3].isInitiator
          /\ Deleted(t, Other(t), 1)
          /\ Alive(t, Other(t), 2)
          /\ Alive(t, Other(t), 3)

Kept(t, p, k) ==
  /\ heap[t][k].deleted = 0
  /\ ~isZero(heap[t][k].send)
  /\ ~isZero(heap[t][k].receive)
  /\ k \in {keypairs[t][p].previous, keypairs[t][p].current, keypairs[t][p].next}
  /\ heap[t][k].localIndex # 0 =>
       Lookup(indexTable[t], heap[t][k].localIndex) = KeypairEntry(p, k)

ResponderInstallsNext ==
  [][\A t \in Transports :
       BeganSessionAsResponder(t) =>
         LET p == Other(t)
             slots == keypairs[t][p]
         IN /\ keypairs'[t][p].next = Len(heap'[t])
            /\ keypairs'[t][p].previous = 0
            /\ keypairs'[t][p].current = slots.current
            /\ \A k \in 1..Len(heap[t]) :
                 k \in {slots.next, slots.previous} => Deleted(t, p, k)']_vars

\* a responder has finished a handshake while it held a current keypair and
\* a next keypair
ResponderInstallsNextWitness ==
  /\ lastOp = Returned("BeginSymmetricSession", "", "", "ok", "", 0, 0)
  /\ \E t \in Transports :
       LET slots == keypairs[t][Other(t)]
       IN /\ Len(heap[t]) = 3
          /\ slots = [previous |-> 0, current |-> 1, next |-> 3]
          /\ ~heap[t][3].isInitiator
          /\ Deleted(t, Other(t), 2)
          /\ Alive(t, Other(t), 1)
          /\ Alive(t, Other(t), 3)

\* the last step was a call of ReceivedWithKeypair at transport t that
\* returned ret
ReceivedWith(t, ret) ==
  /\ lastOp' = Returned("ReceivedWithKeypair", "", "", ret, "", 0, 0)
  /\ \A u \in Transports \ {t} :
       /\ keypairs'[u] = keypairs[u]
       /\ heap'[u] = heap[u]
       /\ indexTable'[u] = indexTable[u]

\* the effect of a call of ReceivedWithKeypair that has just returned
ReceivedWithKeypairEffect ==
  IF lastOp'.ret = "true"
    THEN \E t \in Transports :
           LET p == Other(t)
               slots == keypairs[t][p]
           IN /\ ReceivedWith(t, "true")
              /\ slots.next # 0
              /\ keypairs'[t][p] =
                   [previous |-> slots.current, current |-> slots.next, next |-> 0]
              /\ \A k \in 1..Len(heap[t]) : k = slots.previous => Deleted(t, p, k)'
              /\ \A k \in 1..Len(heap[t]) :
                   k # slots.previous => heap'[t][k] = heap[t][k]
              /\ slots.previous = 0 => indexTable'[t] = indexTable[t]
              /\ hs' = hs
    ELSE /\ \E t \in Transports : ReceivedWith(t, "false")
         /\ UNCHANGED <<keypairs, indexTable, heap, hs>>

\* C20: ReceivedWithKeypair(k) can return true exactly when k is the keypair
\* in next and can return false exactly when it is not; when it returns
\* true, afterwards previous is the keypair that was current, current is
\* the keypair that was next, next is empty and the keypair that was
\* previous has been deleted; when it returns false the three slots, the
\* keypairs and the index table are as they were.
ReceivedWithKeypairPromotesNext ==
  /\ [](\A t \in Transports : \A k \in 1..Len(heap[t]) :
          /\ (ENABLED ReceivedWithKeypair(t, Other(t), k))
               <=> (keypairs[t][Other(t)].next = k)
          /\ (ENABLED ReceivedWithKeypairFalse(t, Other(t), k))
               <=> (keypairs[t][Other(t)].next # k))
  /\ [][lastOp'.op = "ReceivedWithKeypair" => ReceivedWithKeypairEffect]_vars

\* a responder that had a current keypair has received with its next
\* keypair, which is promoted, and then with the keypair that was current,
\* which changes nothing
ReceivedWithKeypairWitness ==
  /\ lastOp = Returned("ReceivedWithKeypair", "", "", "false", "", 0, 0)
  /\ \E t \in Transports :
       LET slots == keypairs[t][Other(t)]
       IN /\ slots.previous # 0
          /\ slots.current # 0
          /\ slots.next = 0
          /\ ~heap[t][slots.current].isInitiator
          /\ Alive(t, Other(t), slots.previous)
          /\ Alive(t, Other(t), slots.current)

\* the keypairs peer p of transport t holds in its three slots
Held(t, p) == {keypairs[t][p].previous, keypairs[t][p].current, keypairs[t][p].next} \ {0}

\* C21: in every reachable state, for each keypair held in the previous,
\* current or next slot of a peer, the lookup of keypair.localIndex in the
\* index table returns that keypair and this peer.
SlotsResolve ==
  \A t \in Transports : \A k \in Held(t, Other(t)) :
    Lookup(indexTable[t], heap[t][k].localIndex) = KeypairEntry(Other(t), k)

\* C22: with writers that take a reference before they send and release
\* it after, the channel of a queue is never closed while the reference
\* count is above 0, it is closed at most once, and no writer that holds a
\* reference sends on a closed channel.
QueueNeverClosedWhileReferenced ==
  /\ queue.closed => queue.wg = 0
  /\ queue.closes <= 1
  /\ ~queue.panicked

\* C22, amended: the same, for writers that take their reference while the
\* count is above 0, that is before the last reference is released.
QueueNeverClosedWhileReferencedInTime ==
  /\ queue.closes <= 1
  /\ ~queue.lateAdd =>
       /\ queue.closed => queue.wg = 0
       /\ ~queue.panicked

\* both writers took their references in time and sent all their elements,
\* every reference was released and the channel is closed
QueueClosedWitness ==
  /\ queue.closed
  /\ ~queue.lateAdd
  /\ ~queue.initial
  /\ queue.wg = 0
  /\ \A x \in QueueWriters : queue.sends[x] = MaxSends /\ queue.writer[x] = "idle"

\* C23: a new queue holds exactly one reference, and once the count of
\* references has reached 0 the channel is eventually closed and the
\* consumer that ranges over the channel eventually terminates.
QueueEventuallyClosed ==
  /\ queue.wg = 1 /\ queue.initial /\ ~queue.closed
  /\ (queue.wg = 0) ~> queue.closed
  /\ (queue.wg = 0) ~> (queue.consumer = "done")

\* the count reached 0 after elements were sent, the channel was closed and
\* the consumer, having received every element, left its range
QueueDrainedWitness ==
  /\ queue.wg = 0
  /\ queue.closed
  /\ queue.consumer = "done"
  /\ queue.received = 2 * MaxSends
  /\ queue.c = 0

\* the cases of Test_coalesceMessages: the buffers, and the length and the
\* GSO size of each message wanted
CoalesceCases ==
  { [ buffs |-> <<[len |-> 1, cap |-> 1]>>,
      wantLens |-> <<1>>, wantGSO |-> <<0>> ],
    [ buffs |-> <<[len |-> 1, cap |-> 2], [len |-> 1, cap |-> 1]>>,
      wantLens |-> <<2>>, wantGSO |-> <<1>> ],
    [ buffs |-> <<[len |-> 2, cap |-> 3], [len |-> 1, cap |-> 1]>>,
      wantLens |-> <<3>>, wantGSO |-> <<2>> ],
    [ buffs |-> <<[len |-> 2, cap |-> 3], [len |-> 1, cap |-> 1], [len |-> 2, cap |-> 2]>>,
      wantLens |-> <<3, 2>>, wantGSO |-> <<2, 0>> ],
    [ buffs |-> <<[len |-> 2, cap |-> 4], [len |-> 2, cap |-> 2], [len |-> 2, cap |-> 2]>>,
      wantLens |-> <<4, 2>>, wantGSO |-> <<2, 0>> ] }

\* the test passes on case c
CoalesceCasePasses(c) ==
  LET r == coalesceMessages(TheAddr, c.buffs)
  IN /\ r.n = Len(c.wantLens)
     /\ \A i \in 1..r.n :
          /\ r.msgs[i].Addr = TheAddr
          /\ r.msgs[i].len = c.wantLens[i]
          /\ r.msgs[i].gso = c.wantGSO[i]

\* the datagrams of the messages ms, one message after the other
RECURSIVE Datagrams(_)
Datagrams(ms) == IF ms = <<>> THEN <<>> ELSE ms[1].dgrams \o Datagrams(Tail(ms))

\* the sum of the lengths of the buffers ds of bufs
RECURSIVE TotalLen(_, _)
TotalLen(bufs, ds) == IF ds = <<>> THEN 0 ELSE bufs[ds[1]].len + TotalLen(bufs, Tail(ds))

\* C24: coalesceMessages packs the datagrams, in order and without losing
\* bytes, into messages; a datagram is appended to a message only if it
\* fits in the capacity left in the message's first buffer and is not
\* longer than the first datagram, and none is appended after one shorter
\* than the first; a message of several datagrams carries the length of the
\* first as GSO size, a message of one datagram carries none; every message
\* has the address given; the number returned is the number of messages.
\* The cases of Test_coalesceMessages pass.
CoalescePacksInOrder ==
  /\ \A c \in CoalesceCases : CoalesceCasePasses(c)
  /\ conn.op = "coalesceMessages" =>
       /\ conn.n = Len(conn.out)
       /\ Datagrams(conn.out) = [i \in 1..Len(conn.bufs) |-> i]
       /\ \A m \in 1..Len(conn.out) :
            LET msg == conn.out[m]
                first == conn.bufs[msg.dgrams[1]]
            IN /\ msg.Addr = TheAddr
               /\ msg.dgrams # <<>>
               /\ msg.len = TotalLen(conn.bufs, msg.dgrams)
               /\ msg.len <= first.cap
               /\ \A d \in 1..Len(msg.dgrams) :
                    /\ conn.bufs[msg.dgrams[d]].len <= first.len
                    /\ d < Len(msg.dgrams) => conn.bufs[msg.dgrams[d]].len = first.len
               /\ msg.gso = IF Len(msg.dgrams) > 1 THEN first.len ELSE 0

\* three datagrams were packed into two messages: the first two coalesced,
\* the second shorter than the first, and the third, which would have
\* fitted, in a message of its own without GSO size
CoalesceWitness ==
  /\ conn.op = "coalesceMessages"
  /\ Len(conn.bufs) = 3
  /\ conn.n = 2
  /\ conn.out[1].dgrams = <<1, 2>>
  /\ conn.bufs[2].len < conn.bufs[1].len
  /\ conn.bufs[3].len <= conn.bufs[1].cap - conn.out[1].len
  /\ conn.out[1].gso = conn.bufs[1].len
  /\ conn.out[2].gso = 0

\* newMsg(n, gso) of Test_splitCoalescedMessages
newMsg(n, gso) == [N |-> n, gso |-> gso]

\* the cases of Test_splitCoalescedMessages
SplitCases ==
  { [ msgs |-> <<newMsg(0, 0), newMsg(0, 0), newMsg(3, 1), newMsg(0, 0)>>,
      firstMsgAt |-> 2, wantNumEval |-> 3, wantMsgLens |-> <<1, 1, 1, 0>>,
      wantErr |-> FALSE ],
    [ msgs |-> <<newMsg(0, 0), newMsg(0, 0), newMsg(1, 0), newMsg(0, 0)>>,
      firstMsgAt |-> 2, wantNumEval |-> 1, wantMsgLens |-> <<1, 0, 0, 0>>,
      wantErr |-> FALSE ],
    [ msgs |-> <<newMsg(0, 0), newMsg(0, 0), newMsg(1, 0), newMsg(1, 0)>>,
      firstMsgAt |-> 2, wantNumEval |-> 2, wantMsgLens |-> <<1, 1, 0, 0>>,
      wantErr |-> FALSE ],
    [ msgs |-> <<newMsg(0, 0), newMsg(0, 0), newMsg(1, 0), newMsg(3, 1)>>,
      firstMsgAt |-> 2, wantNumEval |-> 4, wantMsgLens |-> <<1, 1, 1, 1>>,
      wantErr |-> FALSE ],
    [ msgs |-> <<newMsg(0, 0), newMsg(0, 0), newMsg(2, 1), newMsg(2, 1)>>,
      firstMsgAt |-> 2, wantNumEval |-> 4, wantMsgLens |-> <<1, 1, 1, 1>>,
      wantErr |-> FALSE ],
    [ msgs |-> <<newMsg(0, 0), newMsg(0, 0), newMsg(1, 0), newMsg(4, 1)>>,
      firstMsgAt |-> 2, wantNumEval |-> 4, wantMsgLens |-> <<1, 1, 1, 1>>,
      wantErr |-> TRUE ] }

\* the test passes on case c
SplitCasePasses(c) ==
  LET r == splitCoalescedMessages(c.msgs, c.firstMsgAt)
  IN /\ r.err => c.wantErr
     /\ r.n = c.wantNumEval
     /\ \A i \in 1..Len(c.msgs) : r.out[i] = c.wantMsgLens[i]

\* the lengths of the messages one received message of N bytes with GSO
\* size g is split into
Segments(N, g) ==
  IF N = 0 THEN <<>>
  ELSE IF g = 0 THEN <<N>>
  ELSE [k \in 1..((N + g - 1) \div g) |-> IF k * g <= N THEN g ELSE N - (k - 1) * g]

\* the segments of the messages msgs[i..], in order (i from 0)
RECURSIVE SegmentsFrom(_, _)
SegmentsFrom(msgs, i) ==
  IF i >= Len(msgs) THEN <<>>
  ELSE Segments(msgs[i + 1].N, msgs[i + 1].gso) \o SegmentsFrom(msgs, i + 1)

\* C25: splitCoalescedMessages takes the received messages from index
\* firstMsgAt on, in order, and writes the result from index 0: a message
\* of N bytes with GSO size g > 0 gives ceil(N/g) messages of at most g
\* bytes, one of N > 0 bytes without GSO size gives one message of N bytes,
\* one of 0 bytes gives none; it returns the number of messages, leaves
\* N = 0 in the slots it does not use, and returns an error when there are
\* more segments than slots.  The cases of Test_splitCoalescedMessages pass.
SplitWritesSegments ==
  /\ \A c \in SplitCases : SplitCasePasses(c)
  /\ conn.op = "splitCoalescedMessages" =>
       LET want == SegmentsFrom(conn.msgs, conn.firstMsgAt)
       IN IF Len(want) <= Len(conn.msgs)
            THEN /\ ~conn.err
                 /\ conn.n = Len(want)
                 /\ conn.out = [i \in 1..Len(conn.msgs) |->
                                  IF i <= Len(want) THEN want[i] ELSE 0]
            ELSE conn.err

\* a message of 3 bytes with GSO size 2 and a message without GSO size,
\* received from slot 1 on, were split into messages of 2, 1 and 1 bytes
SplitWitness ==
  /\ conn.op = "splitCoalescedMessages"
  /\ conn.firstMsgAt = 1
  /\ conn.msgs = <<EmptySlot, newMsg(3, 2), newMsg(1, 0)>>
  /\ conn.n = 3
  /\ ~conn.err
  /\ conn.out = <<2, 1, 1>>

\* C26: whatever counters are offered to the replay filter of a keypair, a
\* counter is accepted at most once, and only if it is above head - 1024 at
\* the time of the check, head being the highest counter accepted so far.
AcceptedAtMostOnce ==
  /\ \A i, j \in 1..Len(replayFilter.accepted) :
       i # j => replayFilter.accepted[i] # replayFilter.accepted[j]
  /\ \A i \in 1..Len(replayFilter.accepted) :
       replayFilter.accepted[i] <= replayFilter.head
  /\ replayFilter.accepted # <<>> =>
       \E i \in 1..Len(replayFilter.accepted) :
         replayFilter.accepted[i] = replayFilter.head
  /\ replayFilter.last.ret => replayFilter.last.counter > replayFilter.last.head - 1024

\* a counter was accepted behind the head, inside the window, and then
\* offered again, which was rejected
ReplayRejectedWitness ==
  /\ replayFilter.accepted = <<1, WindowSize + 1, 2>>
  /\ replayFilter.last = [counter |-> 2, head |-> WindowSize + 1, ret |-> FALSE,
                          op |-> "Check"]

HandshakeHoldsIndex(t, p) ==
  hs[t][p].state \in {handshakeInitiationCreated, handshakeResponseCreated,
                      handshakeResponseConsumed}

\* the keypairs of transport t that have not been deleted
LiveKeypairs(t) == {k \in 1..Len(heap[t]) : heap[t][k].deleted = 0}

\* C28: after any sequence of CreateMessageInitiation,
\* CreateMessageResponse, BeginSymmetricSession and keypair deletions, no
\* two live handshakes or keypairs of a transport share a localIndex: an
\* index is not handed out again while its target still exists.
NoIndexShared ==
  \A t \in Transports :
    /\ \A k1, k2 \in LiveKeypairs(t) :
         k1 # k2 => heap[t][k1].localIndex # heap[t][k2].localIndex
    /\ \A p \in PeersOf(t) : \A k \in LiveKeypairs(t) :
         HandshakeHoldsIndex(t, p) => hs[t][p].localIndex # heap[t][k].localIndex
    /\ \A p1, p2 \in PeersOf(t) :
         p1 # p2 /\ HandshakeHoldsIndex(t, p1) /\ HandshakeHoldsIndex(t, p2) =>
           hs[t][p1].localIndex # hs[t][p2].localIndex

\* worker w has returned from a call of ReceivedWithKeypair that found its
\* keypair in next at the first load
ReturnedFromReceived(w) == wk[w].pc = "ReceivedWithKeypair:returned"

\* worker w is between the first load and the lock
WaitsForLock(w) == wk[w].pc = "ReceivedWithKeypair:Lock"

\* workers v and w are in calls for the same keypair of the same peer
SameCall(v, w) ==
  /\ wk[v].t = wk[w].t /\ wk[v].p = wk[w].p /\ wk[v].keypair = wk[w].keypair

\* the workers that returned true from a call for the keypair of worker w
Promoters(w) ==
  {v \in Workers : ReturnedFromReceived(v) /\ SameCall(v, w) /\ wk[v].ret = "true"}

\* every call for the keypair of worker w that found it in next has returned
AllReturned(w) ==
  \A v \in Workers : ~(WaitsForLock(v) /\ SameCall(v, w))

\* the step of a call that returns true: the keypair is still in next, and
\* the step moves it to current and the keypair that was current to previous
\* without deleting it
PromotionEffect ==
  \A w \in Workers :
    WaitsForLock(w) /\ ReturnedFromReceived(w)' /\ wk'[w].ret = "true" =>
      LET l == wk[w]
          slots == keypairs[l.t][l.p]
      IN /\ slots.next = l.keypair
         /\ keypairs'[l.t][l.p] =
              [previous |-> slots.current, current |-> l.keypair, next |-> 0]
         /\ slots.current # 0 =>
              heap'[l.t][slots.current].deleted = heap[l.t][slots.current].deleted

\* C29, as stated: of the calls of ReceivedWithKeypair that observe the same
\* keypair k in next, by several workers and side by side with
\* BeginSymmetricSession, exactly one returns true.
ExactlyOnePromotes ==
  \A w \in Workers :
    ReturnedFromReceived(w) /\ AllReturned(w) => Cardinality(Promoters(w)) = 1

\* C29, amended: of the calls of ReceivedWithKeypair that observe the same
\* keypair k in next, at most one returns true, and one does unless
\* BeginSymmetricSession made a keypair for the peer between the first load
\* and the lock of the call; the call that returns true performs the
\* promotion: k becomes current, the keypair that was current becomes
\* previous and is not deleted.
AtMostOnePromotes ==
  /\ [](\A w \in Workers :
          ReturnedFromReceived(w) =>
            /\ Cardinality(Promoters(w)) <= 1
            /\ Promoters(w) = {} => wk[w].done > wk[w].seen)
  /\ [][PromotionEffect]_vars

\* both workers called with the same keypair in next, one returned true and
\* the other false, and the keypair that was current is in previous, alive
PromotionRaceWitness ==
  /\ \A w \in Workers : ReturnedFromReceived(w)
  /\ SameCall("w1", "w2")
  /\ wk["w1"].done = wk["w1"].seen /\ wk["w2"].done = wk["w2"].seen
  /\ wk["w1"].ret # wk["w2"].ret
  /\ LET slots == keypairs[wk["w1"].t][wk["w1"].p]
     IN /\ slots.current = wk["w1"].keypair
        /\ slots.previous # 0
        /\ heap[wk["w1"].t][slots.previous].deleted = 0

\* the slots of the peers of transport t that hold keypair k
SlotsHolding(t, k) ==
  {<<p, slot>> \in PeersOf(t) \X {"previous", "current", "next"} :
     keypairs[t][p][slot] = k}

\* C30: in every reachable state, each keypair BeginSymmetricSession has
\* created is either held in exactly one of the previous, current and next
\* slots or has been passed to DeleteKeypair: none is in two slots, none
\* that was deleted is in a slot, none has left the slots without being
\* deleted, and none was deleted twice.
KeypairHeldOrDeleted ==
  \A t \in Transports : \A k \in 1..Len(heap[t]) :
    /\ heap[t][k].deleted <= 1
    /\ IF heap[t][k].deleted = 0
         THEN Cardinality(SlotsHolding(t, k)) = 1
         ELSE SlotsHolding(t, k) = {}

\* a peer has had three keypairs: the first was deleted, the other two are
\* in previous and in current
KeypairLifecycleWitness ==
  \E t \in Transports :
    /\ Len(heap[t]) >= 3
    /\ heap[t][1].deleted = 1
    /\ keypairs[t][Other(t)].previous # 0
    /\ keypairs[t][Other(t)].current # 0

\* goroutine g is in a call and cannot make its next lock operation
BlockedOnLock(g) ==
  /\ Running(g)
  /\ LET op == NextLockOp(g)
     IN \/ op[1] = "RLock" /\ ~CanRLock(locks[op[2]])
        \/ op[1] = "Lock" /\ g \in locks[op[2]].waiting /\ ~CanLock(locks[op[2]])

\* C31: no interleaving of CreateMessageInitiation, ConsumeMessageInitiation,
\* CreateMessageResponse, ConsumeMessageResponse, BeginSymmetricSession and
\* ReceivedWithKeypair on the same peer, together with a writer of the
\* static-identity lock, reaches a deadlock: a state in which goroutines are
\* in calls and every one of them waits for a lock.
NoLockDeadlock ==
  ~ /\ \E g \in Goroutines : Running(g)
    /\ \A g \in Goroutines : Running(g) => BlockedOnLock(g)

\* msg is an initiation the peer of transport t made
Authentic(t, msg) ==
  msg \in netInit /\ Opened(msg.Static) = StaticPublicKey(Other(t))

\* the timestamp of msg is after the last one accepted from the peer, and
\* the last consumption is more than HandshakeInitationRate ago
FreshAndNoFlood(t, msg) ==
  /\ After(Opened(msg.Timestamp), hs[t][Other(t)].lastTimestamp)
  /\ ~Flood(hs[t][Other(t)])

\* the step in which a call of ConsumeMessageInitiation by worker w commits
InitiationCommits(w) ==
  wk[w].pc = "ConsumeMessageInitiation" /\ wk'[w].pc = "idle"

\* C32: ConsumeMessageInitiation does not depend on the handshake state: an
\* authentic, fresh, non-flood initiation is accepted in every state and
\* the commit always leaves the state InitiationConsumed; an initiation of
\* its own that the peer had outstanding is abandoned, and a response that
\* arrives while the state is not InitiationCreated is rejected by
\* ConsumeMessageResponse.
InitiationConsumedInEveryState ==
  /\ [](\A t \in Transports : \A msg \in netInit :
          Authentic(t, msg) /\ FreshAndNoFlood(t, msg) =>
            ConsumeInitiationCheck(t, msg).peer = Other(t))
  /\ [][\A w \in Workers :
          InitiationCommits(w) =>
            hs'[wk[w].t][wk[w].p].state = handshakeInitiationConsumed]_vars
  /\ [](\A t \in Transports :
          hs[t][Other(t)].state # handshakeInitiationCreated =>
            \A msg \in ResponseInputs(t) : ~Accepts(t, msg))

\* a transport with an initiation of its own outstanding consumed the
\* initiation of its peer, and the response of the peer to the abandoned
\* initiation has been sent and is rejected for the state
AbandonedInitiationWitness ==
  \E t \in Transports : \E mi \in netInit : \E mr \in netResp :
    /\ lastOp = Returned("ConsumeMessageInitiation", t, Other(t), "peer", "", 2, 0)
    /\ hs[t][Other(t)].state = handshakeInitiationConsumed
    /\ mi.Ephemeral = hsMsgs[t][Other(t)].sent
    /\ hsMsgs[Other(t)][t].rcvd = mi.Ephemeral
    /\ mr.Ephemeral = hsMsgs[Other(t)][t].sent
    /\ Lookup(indexTable[t], mr.Receiver).kind = "handshake"
    /\ ConsumeResponseCheck(t, hs[t][Other(t)], mr).why = "state"

\* an address of the call that returned last was mapped when the call was
\* made, or is given twice in the call
AddressInUse ==
  LET l == pd.last
  IN \E i \in 1..Len(l.addrs) :
       \/ l.addrs[i] \in DOMAIN l.before.fromPeerAddress
       \/ \E j \in 1..(i - 1) : l.addrs[j] = l.addrs[i]

\* the addresses of the call that returned last that precede the first one
\* in use
MappedBeforeError ==
  LET l == pd.last
  IN {l.addrs[i] : i \in {h \in 1..Len(l.addrs) :
        \A j \in 1..h :
          /\ l.addrs[j] \notin DOMAIN l.before.fromPeerAddress
          /\ \A g \in 1..(j - 1) : l.addrs[g] # l.addrs[j]}}

\* C33, as stated: AddPeer returns an error if and only if one of the given
\* addresses is already mapped to a peer (an address repeated within the
\* call and a re-add with the same addresses included), and a call that
\* returns an error leaves peerNames, peerAddresses and fromPeerAddress as
\* they were before the call.
AddPeerErrorLeavesUnchanged ==
  /\ pd.last.err <=> AddressInUse
  /\ pd.last.err => Maps(pd) = pd.last.before

\* C33, amended: AddPeer returns an error if and only if one of the given
\* addresses is already mapped to a peer; a call that returns an error has
\* set peerNames[name] and peerAddresses[publicKey] as a successful call
\* does, and has mapped the addresses that precede the first one in use to
\* publicKey; every other entry is as before the call.
AddPeerErrorKeepsPartialUpdate ==
  LET l == pd.last
      b == l.before
  IN /\ l.err <=> AddressInUse
     /\ l.err =>
          /\ pd.peerNames = IF l.name # "" THEN Put(b.peerNames, l.name, l.publicKey)
                                           ELSE b.peerNames
          /\ pd.peerAddresses = Put(b.peerAddresses, l.publicKey, l.addrs)
          /\ DOMAIN pd.fromPeerAddress = DOMAIN b.fromPeerAddress \cup MappedBeforeError
          /\ \A a \in DOMAIN pd.fromPeerAddress :
               pd.fromPeerAddress[a] = IF a \in DOMAIN b.fromPeerAddress
                                         THEN b.fromPeerAddress[a] ELSE l.publicKey

\* a call that returned an error for its second address after it mapped the
\* first, and replaced the address list of a public key that was there
AddPeerErrorWitness ==
  /\ pd.last.err
  /\ Len(pd.last.addrs) = 2
  /\ pd.last.addrs[1] \notin DOMAIN pd.last.before.fromPeerAddress
  /\ pd.last.addrs[1] \in DOMAIN pd.fromPeerAddress
  /\ pd.last.publicKey \in DOMAIN pd.last.before.peerAddresses
  /\ pd.peerAddresses # pd.last.before.peerAddresses

\* the addresses in the list of public key k
AddressesOf(k) == {pd.peerAddresses[k][i] : i \in 1..Len(pd.peerAddresses[k])}

\* every name refers to a public key that has an address list
NamesResolve ==
  \A name \in DOMAIN pd.peerNames :
    /\ pd.peerNames[name] \in DOMAIN pd.peerAddresses
    /\ LookupPeerAddressesByName(pd, name).ok

\* the address lists and fromPeerAddress say the same
AddressesAgree ==
  /\ \A a \in DOMAIN pd.fromPeerAddress :
       /\ pd.fromPeerAddress[a] \in DOMAIN pd.peerAddresses
       /\ a \in AddressesOf(pd.fromPeerAddress[a])
  /\ \A k \in DOMAIN pd.peerAddresses : \A a \in AddressesOf(k) :
       /\ LookupPeerByAddress(pd, a).ok
       /\ LookupPeerByAddress(pd, a).publicKey = k

====
